---- MODULE Spec2Model ----
(***************************************************************************)
(* The social-graph service: SocialGraphService (services.py) over the     *)
(* graph store client Neo4jConnection (database.py) and the cache client   *)
(* RedisCache (cache.py).                                                   *)
(*                                                                         *)
(* Request tasks are asyncio coroutines: every `await` of a store or cache *)
(* call is a scheduling point, so each awaited call is one step of the     *)
(* task and the steps of different tasks interleave freely.  The code      *)
(* between two awaits runs without interruption and belongs to the step    *)
(* of the await that precedes it.                                          *)
(***************************************************************************)
EXTENDS Integers, FiniteSets, Sequences, TLC

\* ------------------------------------------------------------- bounds
MaxUsers == 2      \* user ids ever generated
MaxRels  == 2      \* relationship ids ever generated
MaxVer   == 1      \* updates applied to one user
MaxOps   == 3      \* service calls started in one behaviour
MaxRelOps == 4     \* the same, in the behaviours of relationship calls alone
MaxRuns  == 3      \* runs of the schema provisioning
MaxRetry == 1      \* re-runs of a transaction function by the driver
NumProcs == 2      \* concurrent request tasks
MaxBatch == 2      \* elements of one bulk batch
MaxInter == 2      \* interactions recorded
MaxLimit == 2      \* `limit` of a listing
MaxHops == 2       \* max_hops of a path search
ScanCount == 2     \* keys of one page of a scan
MaxCount == 2      \* largest value of a counter
GraphUsers == 5    \* users of the graphs recommendations are drawn from
MaxGraphRels == 7  \* edges of those graphs

Ids    == 1..MaxUsers
RelIds == 1..MaxRels
Procs  == 1..NumProcs

\* The relationship types that occur (one of the enumeration's ten values).
RelTypes == {"FOLLOWS"}

VARIABLES
    nodes,          \* store: user id -> node properties, or NoUser
    rels,           \* store: the RELATES_TO edges
    usedIds,        \* user ids generated so far (uuid4 never repeats)
    usedRelIds,     \* relationship ids generated so far
    cache,          \* cache store: key -> entry, or NoEntry
    redis_client,   \* RedisCache.redis_client is set
    cacheUp,        \* the cache store answers
    proc,           \* the request tasks
    floor,          \* history: per user, the newest write whose cache delete has returned
    deleted,        \* history: ids of the relationships whose delete_relationship has returned
    started,        \* history: number of calls started
    budget,         \* the number of calls a behaviour may start
    schema,         \* store: the indexes and constraints that exist
    prov,           \* the schema provisioning task
    inter,          \* store: the Interaction nodes
    bulk,           \* history: the last bulk batch, what it held and what it created
    settled,        \* history: per user, how a delete_user that ran alone on it returned
    driver,         \* Neo4jConnection._driver is set (by connect(), which nothing calls)
    async_driver,   \* Neo4jConnection._async_driver is set
    storeUp,        \* the store is reachable
    clients         \* the Redis clients made so far and the one redis_client holds (0: None)

vars == <<nodes, rels, usedIds, usedRelIds, cache, redis_client, cacheUp,
          proc, floor, deleted, started, budget, schema, prov, inter, bulk, settled,
          driver, async_driver, storeUp, clients>>

storeVars == <<nodes, rels, usedIds, usedRelIds>>
schemaVars == <<schema, prov, budget>>
graphVars == <<inter, bulk, settled>>
connVars == <<driver, async_driver, storeUp, clients>>
serviceVars == <<nodes, rels, usedIds, usedRelIds, cache, redis_client, cacheUp,
                 proc, floor, deleted, started>>

\* ------------------------------------------------------------- values
NoUser == [ver |-> -1, meta |-> FALSE]

\* A node as create_user writes it: metadata is the JSON text json.dumps
\* produces (meta = TRUE).  A node loaded by bulk_create_nodes carries the
\* caller's properties as they are; the model loads nodes without a metadata
\* property (meta = FALSE).
CreatedNode == [ver |-> 0, meta |-> TRUE]
BulkNode    == [ver |-> 0, meta |-> FALSE]

\* expire is the TTL in seconds the value is stored with when it is cached:
\* cache.set(..., expire=300) for a user, expire=60 for a relationship list;
\* 0 stands for no expiry.
NoEntry == [kind |-> "nil", ver |-> -1, meta |-> FALSE, deg |-> -1, list |-> {},
            expire |-> 0]
UserEntry(v, m, d) == [kind |-> "user", ver |-> v, meta |-> m, deg |-> d, list |-> {},
                       expire |-> 300]
ListEntry(S) == [kind |-> "rels", ver |-> 0, meta |-> FALSE, deg |-> 0, list |-> S,
                 expire |-> 60]

DeletedVer == MaxVer + 1

\* ------------------------------------------------------------- cache keys
UserKey(id) == "user:" \o ToString(id)
RelListKey(id, t) == "user:" \o ToString(id) \o ":relationships:" \o t
RelInvalidationKey(id) == "user:" \o ToString(id) \o ":relationships"

TypeOrAll(t) == IF t = "" THEN "all" ELSE t

Keys == {UserKey(i) : i \in Ids}
        \cup {RelListKey(i, t) : i \in Ids, t \in RelTypes \cup {"all"}}
        \cup {RelInvalidationKey(i) : i \in Ids}

\* ------------------------------------------------------------- results
Pending == [kind |-> "pending", err |-> "", val |-> NoEntry]
RetNone == [kind |-> "None", err |-> "", val |-> NoEntry]
RetVal(v) == [kind |-> "value", err |-> "", val |-> v]
Raise(e) == [kind |-> "raise", err |-> e, val |-> NoEntry]

\* User(**props): metadata is declared Optional[Dict[str, Any]]; the JSON
\* text a created node carries is no dict and pydantic rejects it.
UserCtor(props) == IF props.meta THEN Raise("ValidationError") ELSE RetVal(props)

\* ------------------------------------------------------------- store queries
\* An edge as create_relationship writes it.  created_at and updated_at are
\* the `now` of the creating call: one value for all the edges of a call,
\* named here by the first id the call generated.
Rel(i, a, b, t, at) == [id |-> i, from |-> a, to |-> b, type |-> t, created_at |-> at]

Incident(id, R) == {r \in R : r.from = id \/ r.to = id}

\* The INITIATED and TARGETED edges at a user, one or two for each
\* interaction the user sent or received.
InteractionDegree(u) ==
    Cardinality({i \in inter : i.from = u}) + Cardinality({i \in inter : i.to = u})

\* OPTIONAL MATCH (u)-[r]-() RETURN u, count(r): the edges of every type.
NodeDegree(id, R) == Cardinality(Incident(id, R)) + InteractionDegree(id)

\* What get_user's query returns for an existing user.
StoreUser(id, N, R) == UserEntry(N[id].ver, N[id].meta, NodeDegree(id, R))

\* MATCH (u {id})-[r:RELATES_TO]-(other) [WHERE r.type = $rel_type]
StoreRels(id, t, N, R) ==
    IF N[id] = NoUser THEN {}
    ELSE {r \in Incident(id, R) : t = "" \/ r.type = t}

\* The Relationship objects get_user_relationships builds from the rows: the
\* row's u is the start node of an outgoing edge and the end node of an
\* incoming one, so every object keeps the edge's own direction.  Each row
\* builds User(**u) and User(**other), after result["r"]["id"], which a
\* bulk-loaded edge does not have.
BuildRelationships(rows, N) ==
    IF \E r \in rows : r.id <= 0 THEN Raise("KeyError")
    ELSE IF \E r \in rows : N[r.from].meta \/ N[r.to].meta THEN Raise("ValidationError")
    ELSE RetVal(ListEntry(rows))

\* json.dumps([r.dict() for r in relationships]): r.dict() keeps created_at
\* and updated_at as datetime objects, which json.dumps does not encode.
DumpRelationships(list) ==
    IF list = {} THEN RetVal(ListEntry({})) ELSE Raise("TypeError")

\* ------------------------------------------------------------- cache client
\* The lazy connect of every operation: connect() assigns redis_client and
\* then pings; a failed ping is re-raised, outside the operation's try.
ConnectRaises(client, up) == ~client /\ ~up

CacheGet(c, up, k) == IF up THEN c[k] ELSE NoEntry
\* SET without an expiry in place of SETEX.
CacheSetNoExpiry(c, up, k, v) == IF up THEN [c EXCEPT ![k] = [v EXCEPT !.expire = 0]] ELSE c
\* setex(key, expire, value)
CacheSet(c, up, k, v) == IF up THEN [c EXCEPT ![k] = v] ELSE c
CacheDelete(c, up, k) == IF up THEN [c EXCEPT ![k] = NoEntry] ELSE c

\* ------------------------------------------------------------- tasks
\* results = {}
NoResults == [m \in {} |-> 0]

Idle == [op |-> "none", pc |-> "idle", a |-> 0, b |-> 0, t |-> "", bidir |-> FALSE,
         rid |-> 0, data |-> NoEntry, ret |-> Pending, wr |-> FALSE, cd |-> FALSE,
         att |-> 0, f |-> -1, gone |-> {}, now |-> 0, n |-> 0, solo |-> FALSE,
         members |-> {}, cascade |-> {}, seen |-> {}, fresh |-> {},
         results |-> NoResults, failed |-> {}, answered |-> NoResults,
         cypher |-> "", via |-> 0]

Call(o, first) == [Idle EXCEPT !.op = o, !.pc = first]
\* A finished call keeps its result; its arguments and locals go with the
\* coroutine's frame.
Finish(rec, r) == [Idle EXCEPT !.op = rec.op, !.pc = "done", !.ret = r]

CanStart(p) == proc[p].pc \in {"idle", "done"} /\ started < budget

\* record_interaction takes datetime.utcnow() on entry and the interactions
\* are later ordered by it; the clock is the count of the calls started.
TimedOps == {"record_interaction"}

\* History: a delete_user in progress stops being alone on its user when
\* another call on that user starts.
Joined(q, rec) ==
    IF proc[q].op = "delete_user" /\ proc[q].pc \notin {"idle", "done"}
          /\ proc[q].a \in {rec.a, rec.b}
    THEN [proc[q] EXCEPT !.solo = FALSE] ELSE proc[q]

Begin(p, rec) ==
    /\ CanStart(p)
    /\ proc' = [q \in Procs |->
                  IF q # p THEN Joined(q, rec)
                  ELSE IF rec.op \in TimedOps THEN [rec EXCEPT !.now = started + 1]
                  ELSE rec]
    /\ started' = started + 1
    /\ UNCHANGED <<storeVars, cache, redis_client, cacheUp, floor, deleted, schemaVars, connVars, graphVars>>

At(p, o, pc) == proc[p].op = o /\ proc[p].pc = pc

Max(x, y) == IF x >= y THEN x ELSE y
Min(x, y) == IF x <= y THEN x ELSE y

\* No bulk batch has been submitted.
NoBatch == [kind |-> "none", size |-> 0, created |-> 0, failed |-> FALSE]

\* The provisioning task before its first run.
NoRun == [pc |-> "idle", i |-> 1, runs |-> 0, tried |-> {}, failed |-> FALSE,
          raised |-> FALSE, first |-> {}]

Init ==
    /\ nodes = [i \in Ids |-> NoUser]
    /\ rels = {}
    /\ usedIds = {}
    /\ usedRelIds = {}
    /\ cache = [k \in Keys |-> NoEntry]
    /\ redis_client = FALSE
    /\ cacheUp \in BOOLEAN
    /\ proc = [p \in Procs |-> Idle]
    /\ floor = [i \in Ids |-> -1]
    /\ deleted = {}
    /\ started = 0
    /\ budget = MaxOps
    /\ schema = {}
    /\ prov = NoRun
    /\ inter = {}
    /\ bulk = NoBatch
    /\ settled = [i \in Ids |-> "no"]
    /\ driver = FALSE
    /\ async_driver = FALSE
    /\ storeUp = TRUE
    /\ clients = [made |-> 0, id |-> 0]

\* ------------------------------------------------------------- environment
\* The cache store becomes unreachable, or reachable again.
CacheOutage ==
    /\ cacheUp' = ~cacheUp
    /\ UNCHANGED <<storeVars, cache, redis_client, proc, floor, deleted, started, schemaVars, connVars, graphVars>>

\* The TTL of an entry elapses.
Expire(k) ==
    /\ cache[k] # NoEntry
    /\ cache[k].expire > 0
    /\ cache' = [cache EXCEPT ![k] = NoEntry]
    /\ UNCHANGED <<storeVars, redis_client, cacheUp, proc, floor, deleted, started, schemaVars, connVars, graphVars>>

\* bulk_create_nodes: one write transaction that creates the batch's nodes,
\* here a batch of one node with a new id and no metadata property.
BulkCreateNodes ==
    /\ Cardinality(usedIds) < MaxUsers
    /\ LET id == Cardinality(usedIds) + 1 IN
        /\ nodes' = [nodes EXCEPT ![id] = BulkNode]
        /\ usedIds' = usedIds \cup {id}
    /\ UNCHANGED <<rels, usedRelIds, cache, redis_client, cacheUp, proc, floor, deleted,
                   started, schemaVars, connVars, graphVars>>

\* ------------------------------------------------------------- store client
\* A failed write that deletes the user's cache entry on its way out.
WriteFailsInvalidates(p) ==
    /\ proc[p].pc = "write"
    /\ cache' = IF proc[p].a \in Ids THEN CacheDelete(cache, cacheUp, UserKey(proc[p].a))
                ELSE cache
    /\ proc' = [proc EXCEPT ![p] = Finish([@ EXCEPT !.att = @ + 1], Raise("StoreError"))]
    /\ UNCHANGED <<storeVars, redis_client, cacheUp, floor, deleted, started, schemaVars, connVars, graphVars>>

\* execute_write: the transaction fails for good and the error is re-raised.
WriteFails(p) ==
    /\ proc[p].pc = "write"
    /\ proc' = [proc EXCEPT ![p] = Finish([@ EXCEPT !.att = @ + 1], Raise("StoreError"))]
    /\ UNCHANGED <<storeVars, cache, redis_client, cacheUp, floor, deleted, started, schemaVars, connVars, graphVars>>

\* execute_write hands `work` to session.execute_write, the driver's managed
\* transaction: after a retryable failure the attempt is rolled back and the
\* driver runs `work` again, until max_transaction_retry_time is used up.
WriteRetried(p) ==
    /\ proc[p].pc = "write"
    /\ proc[p].att < MaxRetry
    /\ proc' = [proc EXCEPT ![p].att = @ + 1]
    /\ UNCHANGED <<storeVars, cache, redis_client, cacheUp, floor, deleted, started, schemaVars, connVars, graphVars>>

\* execute_read: the transaction fails and the error is re-raised.
ReadFails(p) ==
    /\ proc[p].pc = "read"
    /\ proc' = [proc EXCEPT ![p] = Finish(@, Raise("StoreError"))]
    /\ UNCHANGED <<storeVars, cache, redis_client, cacheUp, floor, deleted, started, schemaVars, connVars, graphVars>>

\* A cache operation on an unconnected client while the cache store is
\* unreachable: connect() raises out of the operation.
CacheConnectFails(p) ==
    /\ proc[p].pc \in {"cget", "cset", "inval", "inval2"}
    /\ ConnectRaises(redis_client, cacheUp)
    /\ redis_client' = TRUE
    /\ proc' = [proc EXCEPT ![p] = Finish(@, Raise("ConnectionError"))]
    /\ UNCHANGED <<storeVars, cache, cacheUp, floor, deleted, started, schemaVars, connVars, graphVars>>

CacheReady == ~ConnectRaises(redis_client, cacheUp)

\* ------------------------------------------------------------- create_user
\* user_id = str(uuid.uuid4()): an id no other call or batch gets.
StartCreateUser(p) ==
    /\ CanStart(p)
    /\ Cardinality(usedIds) < MaxUsers
    /\ LET id == Cardinality(usedIds) + 1 IN
        /\ proc' = [proc EXCEPT ![p] = [Call("create_user", "write") EXCEPT !.a = id]]
        /\ usedIds' = usedIds \cup {id}
    /\ started' = started + 1
    /\ UNCHANGED <<nodes, rels, usedRelIds, cache, redis_client, cacheUp, floor, deleted,
                   schemaVars, connVars, graphVars>>

CreateUserWrite(p) ==
    /\ At(p, "create_user", "write")
    /\ nodes' = [nodes EXCEPT ![proc[p].a] = CreatedNode]
    /\ proc' = [proc EXCEPT ![p].pc = "inval", ![p].wr = TRUE, ![p].att = @ + 1,
                            ![p].data = UserEntry(0, TRUE, 0)]
    /\ UNCHANGED <<rels, usedIds, usedRelIds, cache, redis_client, cacheUp, floor, deleted, started,
                   schemaVars, connVars, graphVars>>

\* cache.delete(user:<id>), then User(**result[0]["u"], id=user_id): the
\* record holds an id already, so the call has two values for `id`.
CreateUserInvalidate(p) ==
    /\ At(p, "create_user", "inval")
    /\ CacheReady
    /\ redis_client' = TRUE
    /\ cache' = CacheDelete(cache, cacheUp, UserKey(proc[p].a))
    /\ proc' = [proc EXCEPT ![p] = Finish([@ EXCEPT !.cd = TRUE], Raise("TypeError"))]
    /\ UNCHANGED <<storeVars, cacheUp, floor, deleted, started, schemaVars, connVars, graphVars>>

\* ------------------------------------------------------------- get_user
StartGetUser(p, id) ==
    Begin(p, [Call("get_user", "cget") EXCEPT !.a = id, !.f = floor[id]])

GetUserCacheGet(p) ==
    /\ At(p, "get_user", "cget")
    /\ CacheReady
    /\ redis_client' = TRUE
    /\ LET cached == CacheGet(cache, cacheUp, UserKey(proc[p].a)) IN
        proc' = [proc EXCEPT ![p] =
                    IF cached # NoEntry THEN Finish(@, UserCtor(cached))
                    ELSE [@ EXCEPT !.pc = "read"]]
    /\ UNCHANGED <<storeVars, cache, cacheUp, floor, deleted, started, schemaVars, connVars, graphVars>>

GetUserRead(p) ==
    /\ At(p, "get_user", "read")
    /\ proc' = [proc EXCEPT ![p] =
                    IF nodes[proc[p].a] = NoUser THEN Finish(@, RetNone)
                    ELSE [@ EXCEPT !.pc = "cset",
                                   !.data = StoreUser(proc[p].a, nodes, rels)]]
    /\ UNCHANGED <<storeVars, cache, redis_client, cacheUp, floor, deleted, started, schemaVars, connVars, graphVars>>

GetUserCacheSet(p) ==
    /\ At(p, "get_user", "cset")
    /\ CacheReady
    /\ redis_client' = TRUE
    /\ cache' = CacheSet(cache, cacheUp, UserKey(proc[p].a), proc[p].data)
    /\ proc' = [proc EXCEPT ![p] = Finish(@, UserCtor(proc[p].data))]
    /\ UNCHANGED <<storeVars, cacheUp, floor, deleted, started, schemaVars, connVars, graphVars>>

\* ------------------------------------------------------------- update_user
StartUpdateUser(p, id) ==
    Begin(p, [Call("update_user", "write") EXCEPT !.a = id])

\* MATCH (u {id}) SET ... RETURN u: no row when the user does not exist.
UpdateUserWrite(p) ==
    /\ At(p, "update_user", "write")
    /\ LET id == proc[p].a IN
        /\ nodes[id] # NoUser => nodes[id].ver < MaxVer
        /\ nodes' = IF nodes[id] = NoUser THEN nodes
                    ELSE [nodes EXCEPT ![id].ver = @ + 1]
        /\ proc' = [proc EXCEPT ![p].pc = "inval", ![p].wr = TRUE, ![p].att = @ + 1,
                                ![p].data = IF nodes[id] = NoUser THEN NoEntry
                                            ELSE UserEntry(nodes[id].ver + 1,
                                                           nodes[id].meta, 0)]
    /\ UNCHANGED <<rels, usedIds, usedRelIds, cache, redis_client, cacheUp, floor, deleted,
                   started, schemaVars, connVars, graphVars>>

\* update_user with the cache delete issued before the store write.
UpdateUserInvalidatesFirst(p) ==
    /\ At(p, "update_user", "write")
    /\ ~proc[p].cd
    /\ CacheReady
    /\ redis_client' = TRUE
    /\ cache' = CacheDelete(cache, cacheUp, UserKey(proc[p].a))
    /\ proc' = [proc EXCEPT ![p].cd = TRUE]
    /\ UNCHANGED <<storeVars, cacheUp, floor, deleted, started, schemaVars, connVars, graphVars>>

\* update_user writing the updated user into the cache instead of deleting
\* the entry.
UpdateUserPatchesCache(p) ==
    /\ At(p, "update_user", "inval")
    /\ CacheReady
    /\ redis_client' = TRUE
    /\ cache' = IF proc[p].data = NoEntry THEN cache
                ELSE CacheSet(cache, cacheUp, UserKey(proc[p].a), proc[p].data)
    /\ floor' = floor
    /\ proc' = [proc EXCEPT ![p] = Finish(@, RetNone)]
    /\ UNCHANGED <<storeVars, cacheUp, deleted, started, schemaVars, connVars, graphVars>>

\* cache.delete(user:<id>), then User(**result[0]["u"]).
UpdateUserInvalidate(p) ==
    /\ At(p, "update_user", "inval")
    /\ CacheReady
    /\ redis_client' = TRUE
    /\ cache' = CacheDelete(cache, cacheUp, UserKey(proc[p].a))
    /\ floor' = IF proc[p].data = NoEntry THEN floor
                ELSE [floor EXCEPT ![proc[p].a] = Max(@, proc[p].data.ver)]
    /\ proc' = [proc EXCEPT ![p] =
                    Finish([@ EXCEPT !.cd = TRUE],
                           IF proc[p].data = NoEntry THEN Raise("IndexError")
                           ELSE UserCtor(proc[p].data))]
    /\ UNCHANGED <<storeVars, cacheUp, deleted, started, schemaVars, connVars, graphVars>>

\* ------------------------------------------------------------- delete_user
\* No other call on user id is in progress.
Alone(p, id) ==
    \A q \in Procs \ {p} :
        proc[q].pc \in {"idle", "done"} \/ (proc[q].a # id /\ proc[q].b # id)

StartDeleteUser(p, id) ==
    Begin(p, [Call("delete_user", "write") EXCEPT !.a = id, !.solo = Alone(p, id)])

\* delete_user that removes the node and leaves its edges.
DeleteUserKeepsEdges(p) ==
    /\ At(p, "delete_user", "write")
    /\ nodes' = [nodes EXCEPT ![proc[p].a] = NoUser]
    /\ rels' = rels
    /\ proc' = [proc EXCEPT ![p].pc = "inval", ![p].wr = TRUE, ![p].att = @ + 1,
                            ![p].data = IF nodes[proc[p].a] = NoUser THEN NoEntry
                                        ELSE StoreUser(proc[p].a, nodes, rels)]
    /\ UNCHANGED <<usedIds, usedRelIds, cache, redis_client, cacheUp, floor, deleted, started,
                   schemaVars, connVars, graphVars>>

\* MATCH (u {id}) DETACH DELETE u.  History: cascade holds the users at the
\* other end of the edges the delete removed.
DeleteUserWrite(p) ==
    /\ At(p, "delete_user", "write")
    /\ nodes' = [nodes EXCEPT ![proc[p].a] = NoUser]
    /\ rels' = rels \ Incident(proc[p].a, rels)
    /\ proc' = [proc EXCEPT ![p].pc = "inval", ![p].wr = TRUE, ![p].att = @ + 1,
                            ![p].data = IF nodes[proc[p].a] = NoUser THEN NoEntry
                                        ELSE StoreUser(proc[p].a, nodes, rels),
                            ![p].cascade =
                                {IF r.from = proc[p].a THEN r.to ELSE r.from
                                   : r \in Incident(proc[p].a, rels)} \ {proc[p].a}]
    /\ UNCHANGED <<usedIds, usedRelIds, cache, redis_client, cacheUp, floor, deleted, started,
                   schemaVars, connVars, graphVars>>

\* How a delete_user of an existing user, alone on it, returns: the cache
\* store answered the delete ("emptied" when it held the entry, "acked" when
\* it held none), or the failure of the delete was swallowed.
Settle(p, st) ==
    IF proc[p].data = NoEntry \/ ~proc[p].solo THEN st
    ELSE [st EXCEPT ![proc[p].a] =
            IF ~cacheUp THEN "swallowed"
            ELSE IF cache[UserKey(proc[p].a)] # NoEntry THEN "emptied" ELSE "acked"]

\* delete_user that returns without the cache delete.
DeleteUserNoInvalidate(p) ==
    /\ At(p, "delete_user", "inval")
    /\ CacheReady
    /\ redis_client' = TRUE
    /\ cache' = cache
    /\ floor' = IF proc[p].data = NoEntry THEN floor
                ELSE [floor EXCEPT ![proc[p].a] = DeletedVer]
    /\ settled' = Settle(p, settled)
    /\ proc' = [proc EXCEPT ![p] = Finish([@ EXCEPT !.cd = TRUE], RetNone)]
    /\ UNCHANGED <<storeVars, cacheUp, deleted, started, schemaVars, connVars, inter, bulk>>

\* cache.delete(f"user:{user_id}"); the method returns None.
DeleteUserInvalidate(p) ==
    /\ At(p, "delete_user", "inval")
    /\ CacheReady
    /\ redis_client' = TRUE
    /\ cache' = CacheDelete(cache, cacheUp, UserKey(proc[p].a))
    /\ floor' = IF proc[p].data = NoEntry THEN floor
                ELSE [floor EXCEPT ![proc[p].a] = DeletedVer]
    /\ settled' = Settle(p, settled)
    /\ proc' = [proc EXCEPT ![p] = Finish([@ EXCEPT !.cd = TRUE], RetNone)]
    /\ UNCHANGED <<storeVars, cacheUp, deleted, started, schemaVars, connVars, inter, bulk>>

\* ------------------------------------------------------------- create_relationship
StartCreateRelationship(p, a, b, t, bi) ==
    /\ a # b
    /\ Begin(p, [Call("create_relationship", "write")
                    EXCEPT !.a = a, !.b = b, !.t = t, !.bidir = bi])

NewRelId(used) == Cardinality(used) + 1

\* create_relationship that gives the reverse edge the id of the forward one.
CreateRelationshipOneId(p) ==
    /\ At(p, "create_relationship", "write")
    /\ LET a == proc[p].a
           b == proc[p].b
           n == IF proc[p].bidir THEN 2 ELSE 1
           id1 == NewRelId(usedRelIds)
           both == nodes[a] # NoUser /\ nodes[b] # NoUser
       IN
        /\ Cardinality(usedRelIds) + n <= MaxRels
        /\ usedRelIds' = usedRelIds \cup (id1 .. (id1 + n - 1))
        /\ rels' = IF ~both THEN rels
                   ELSE rels \cup {Rel(id1, a, b, proc[p].t, id1)}
                             \cup (IF proc[p].bidir
                                   THEN {Rel(id1, b, a, proc[p].t, id1)}
                                   ELSE {})
        /\ proc' = [proc EXCEPT ![p].pc = "inval", ![p].wr = TRUE, ![p].att = @ + 1,
                                ![p].rid = id1,
                                ![p].data = IF ~both THEN NoEntry
                                            ELSE UserEntry(0, nodes[a].meta \/ nodes[b].meta, 0)]
    /\ UNCHANGED <<nodes, usedIds, cache, redis_client, cacheUp, floor, deleted, started,
                   schemaVars, connVars, graphVars>>

\* MATCH (a {from_id}), (b {to_id}) CREATE (a)-[r]->(b) [CREATE (b)-[r2]->(a)]
\* RETURN a, b, r: no row, and no edge, when an endpoint does not exist.
CreateRelationshipWrite(p) ==
    /\ At(p, "create_relationship", "write")
    /\ LET a == proc[p].a
           b == proc[p].b
           n == IF proc[p].bidir THEN 2 ELSE 1
           id1 == NewRelId(usedRelIds)
           both == nodes[a] # NoUser /\ nodes[b] # NoUser
       IN
        /\ Cardinality(usedRelIds) + n <= MaxRels
        /\ usedRelIds' = usedRelIds \cup (id1 .. (id1 + n - 1))
        /\ rels' = IF ~both THEN rels
                   ELSE rels \cup {Rel(id1, a, b, proc[p].t, id1)}
                             \cup (IF proc[p].bidir
                                   THEN {Rel(id1 + 1, b, a, proc[p].t, id1)}
                                   ELSE {})
        /\ proc' = [proc EXCEPT ![p].pc = "inval", ![p].wr = TRUE, ![p].att = @ + 1,
                                ![p].rid = id1,
                                ![p].data = IF ~both THEN NoEntry
                                            ELSE UserEntry(0, nodes[a].meta \/ nodes[b].meta, 0)]
    /\ UNCHANGED <<nodes, usedIds, cache, redis_client, cacheUp, floor, deleted, started,
                   schemaVars, connVars, graphVars>>

\* cache.delete(f"user:{from_user_id}:relationships")
CreateRelationshipInvalidateFrom(p) ==
    /\ At(p, "create_relationship", "inval")
    /\ CacheReady
    /\ redis_client' = TRUE
    /\ cache' = CacheDelete(cache, cacheUp, RelInvalidationKey(proc[p].a))
    /\ proc' = [proc EXCEPT ![p].pc = "inval2", ![p].cd = TRUE]
    /\ UNCHANGED <<storeVars, cacheUp, floor, deleted, started, schemaVars, connVars, graphVars>>

\* cache.delete(f"user:{to_user_id}:relationships"), then
\* Relationship(id=rel_id, from_user=User(**result[0]["a"]), to_user=User(**result[0]["b"]), ...)
CreateRelationshipInvalidateTo(p) ==
    /\ At(p, "create_relationship", "inval2")
    /\ CacheReady
    /\ redis_client' = TRUE
    /\ cache' = CacheDelete(cache, cacheUp, RelInvalidationKey(proc[p].b))
    /\ proc' = [proc EXCEPT ![p] =
                    Finish([@ EXCEPT !.cd = TRUE],
                           IF proc[p].data = NoEntry THEN Raise("IndexError")
                           ELSE IF proc[p].data.meta THEN Raise("ValidationError")
                           ELSE RetVal(ListEntry({Rel(proc[p].rid, proc[p].a, proc[p].b,
                                                      proc[p].t, proc[p].rid)})))]
    /\ UNCHANGED <<storeVars, cacheUp, floor, deleted, started, schemaVars, connVars, graphVars>>

\* ------------------------------------------------------------- get_user_relationships
StartGetUserRelationships(p, id, t) ==
    Begin(p, [Call("get_user_relationships", "cget")
                 EXCEPT !.a = id, !.t = t, !.gone = deleted])

GetUserRelationshipsCacheGet(p) ==
    /\ At(p, "get_user_relationships", "cget")
    /\ CacheReady
    /\ redis_client' = TRUE
    /\ LET cached == CacheGet(cache, cacheUp, RelListKey(proc[p].a, TypeOrAll(proc[p].t))) IN
        proc' = [proc EXCEPT ![p] =
                    IF cached # NoEntry THEN Finish(@, RetVal(cached))
                    ELSE [@ EXCEPT !.pc = "read"]]
    /\ UNCHANGED <<storeVars, cache, cacheUp, floor, deleted, started, schemaVars, connVars, graphVars>>

\* The store read, the Relationship objects and the JSON text of the list.
GetUserRelationshipsRead(p) ==
    /\ At(p, "get_user_relationships", "read")
    /\ LET built == BuildRelationships(StoreRels(proc[p].a, proc[p].t, nodes, rels), nodes)
           text == IF built.kind = "raise" THEN built ELSE DumpRelationships(built.val.list)
       IN proc' = [proc EXCEPT ![p] =
                      IF text.kind = "raise" THEN Finish(@, text)
                      ELSE [@ EXCEPT !.pc = "cset", !.data = text.val]]
    /\ UNCHANGED <<storeVars, cache, redis_client, cacheUp, floor, deleted, started, schemaVars, connVars, graphVars>>

GetUserRelationshipsCacheSet(p) ==
    /\ At(p, "get_user_relationships", "cset")
    /\ CacheReady
    /\ redis_client' = TRUE
    /\ cache' = CacheSet(cache, cacheUp, RelListKey(proc[p].a, TypeOrAll(proc[p].t)),
                         proc[p].data)
    /\ proc' = [proc EXCEPT ![p] = Finish(@, RetVal(proc[p].data))]
    /\ UNCHANGED <<storeVars, cacheUp, floor, deleted, started, schemaVars, connVars, graphVars>>

\* ------------------------------------------------------------- delete_relationship
StartDeleteRelationship(p, rid) ==
    /\ rid \in usedRelIds
    /\ Begin(p, [Call("delete_relationship", "write") EXCEPT !.rid = rid])

\* delete_relationship whose query matches no edge.
DeleteRelationshipMatchesNothing(p) ==
    /\ At(p, "delete_relationship", "write")
    /\ rels' = rels
    /\ deleted' = deleted \cup {proc[p].rid}
    /\ proc' = [proc EXCEPT ![p] = Finish(@, RetNone)]
    /\ UNCHANGED <<nodes, usedIds, usedRelIds, cache, redis_client, cacheUp, floor,
                   started, schemaVars, connVars, graphVars>>

\* MATCH ()-[r:RELATES_TO {id}]-() DELETE r; nothing else follows.
DeleteRelationshipWrite(p) ==
    /\ At(p, "delete_relationship", "write")
    /\ rels' = {r \in rels : r.id # proc[p].rid}
    /\ deleted' = deleted \cup {proc[p].rid}
    /\ proc' = [proc EXCEPT ![p] = Finish(@, RetNone)]
    /\ UNCHANGED <<nodes, usedIds, usedRelIds, cache, redis_client, cacheUp, floor,
                   started, schemaVars, connVars, graphVars>>

RelStep(p) ==
    \/ \E a, b \in Ids, t \in RelTypes, bi \in BOOLEAN : StartCreateRelationship(p, a, b, t, bi)
    \/ CreateRelationshipWrite(p)
    \/ CreateRelationshipInvalidateFrom(p)
    \/ CreateRelationshipInvalidateTo(p)
    \/ \E id \in Ids, t \in RelTypes \cup {""} : StartGetUserRelationships(p, id, t)
    \/ GetUserRelationshipsCacheGet(p)
    \/ GetUserRelationshipsRead(p)
    \/ GetUserRelationshipsCacheSet(p)
    \/ \E rid \in RelIds : StartDeleteRelationship(p, rid)
    \/ DeleteRelationshipWrite(p)

\* ------------------------------------------------------------- bulk operations
\* bulk_create_nodes: UNWIND $nodes ... CREATE (n) SET n = node in one write
\* transaction; the nodes get new ids and no metadata property.
BulkCreateNodesBatch(n) ==
    /\ Cardinality(usedIds) + n <= MaxUsers
    /\ LET id1 == Cardinality(usedIds) + 1
           new == id1 .. (id1 + n - 1)
       IN /\ nodes' = [i \in Ids |-> IF i \in new THEN BulkNode ELSE nodes[i]]
          /\ usedIds' = usedIds \cup new
    /\ bulk' = [kind |-> "nodes", size |-> n, created |-> n, failed |-> FALSE]
    /\ UNCHANGED <<rels, usedRelIds, cache, redis_client, cacheUp, proc, floor, deleted,
                   started, schemaVars, connVars, inter, settled>>

\* The elements of a batch of relationships whose MATCH finds both users.
Matched(batch) ==
    {k \in 1..Len(batch) : nodes[batch[k][1]] # NoUser /\ nodes[batch[k][2]] # NoUser}

\* An edge as bulk_create_relationships writes it: type and properties, no
\* id and no timestamps; a number that is no id tells parallel edges apart.
BulkRel(k, a, b, t) == Rel(0 - k, a, b, t, 0)

\* bulk_create_relationships: UNWIND $relationships as rel MATCH (a), (b)
\* CREATE (a)-[r]->(b) in one write transaction.  An element whose MATCH finds
\* no pair of users yields no row: nothing is created for it, and the
\* transaction goes on and commits.
BulkCreateRelationships(batch) ==
    /\ Cardinality(usedRelIds) + Cardinality(Matched(batch)) <= MaxRels
    /\ LET base == Cardinality(usedRelIds)
           num(k) == base + Cardinality({j \in Matched(batch) : j <= k})
       IN /\ rels' = rels \cup {BulkRel(num(k), batch[k][1], batch[k][2], "FOLLOWS")
                                  : k \in Matched(batch)}
          /\ usedRelIds' = usedRelIds \cup {num(k) : k \in Matched(batch)}
    /\ bulk' = [kind |-> "relationships", size |-> Len(batch),
                created |-> Cardinality(Matched(batch)), failed |-> FALSE]
    /\ UNCHANGED <<nodes, usedIds, cache, redis_client, cacheUp, proc, floor, deleted,
                   started, schemaVars, connVars, inter, settled>>

\* The write transaction of a bulk call fails: it is rolled back as a whole
\* and execute_write re-raises.
BulkWriteFails(kind, n) ==
    /\ bulk' = [kind |-> kind, size |-> n, created |-> 0, failed |-> TRUE]
    /\ bulk' # bulk
    /\ UNCHANGED <<serviceVars, schemaVars, connVars, inter, settled>>

\* The batches of relationships submitted.
Batches == UNION {[1..n -> Ids \X Ids] : n \in 1..MaxBatch}

\* ------------------------------------------------------------- community density
\* MATCH (a)-[r:RELATES_TO]-(b) WHERE a.id IN $ids AND b.id IN $ids AND
\* a.id < b.id RETURN count(r): every edge between two members, once.
EdgeCount(M, R) ==
    Cardinality({r \in R : r.from \in M /\ r.to \in M /\ r.from # r.to})

\* _calculate_community_density without its guards.
UnguardedDensity(n, edge_count) ==
    [kind |-> "density", size |-> n, num |-> edge_count,
     den |-> (n * (n - 1)) \div 2, div |-> TRUE]

\* The arithmetic of _calculate_community_density for n members: 0.0 for
\* fewer than two members, else edge_count / (n * (n - 1) / 2) when that
\* maximum is positive.  The quotient is kept as numerator and denominator;
\* div tells whether a division was performed.
Density(n, edge_count) ==
    IF n < 2 THEN [kind |-> "density", size |-> n, num |-> 0, den |-> 1, div |-> FALSE]
    ELSE LET max_edges == (n * (n - 1)) \div 2 IN
         IF max_edges > 0
         THEN [kind |-> "density", size |-> n, num |-> edge_count, den |-> max_edges,
               div |-> TRUE]
         ELSE [kind |-> "density", size |-> n, num |-> 0, den |-> 1, div |-> FALSE]

\* _calculate_community_density(members): with fewer than two members it
\* returns before its first await.
StartDensity(p, M) ==
    Begin(p, IF Cardinality(M) < 2
             THEN Finish(Call("_calculate_community_density", "read"),
                         RetVal(Density(Cardinality(M), 0)))
             ELSE [Call("_calculate_community_density", "read") EXCEPT !.members = M])

DensityRead(p) ==
    /\ At(p, "_calculate_community_density", "read")
    /\ proc' = [proc EXCEPT ![p] =
                  Finish(@, RetVal(Density(Cardinality(@.members),
                                           EdgeCount(@.members, rels))))]
    /\ UNCHANGED <<storeVars, cache, redis_client, cacheUp, floor, deleted, started,
                   schemaVars, connVars, graphVars>>

\* detect_communities(user_id): the community detection routine of the store
\* assigns the users to communities; M is the community of the user.
StartDetectCommunities(p, id) ==
    Begin(p, [Call("detect_communities", "detect") EXCEPT !.a = id])

\* communities = community_detection(algorithm); the user's community, or
\* return [] when the user is in none.
DetectCommunitiesDetect(p, M) ==
    /\ At(p, "detect_communities", "detect")
    /\ \A i \in M : nodes[i] # NoUser
    /\ (proc[p].a \in M) = (nodes[proc[p].a] # NoUser)
    /\ proc' = [proc EXCEPT ![p] =
                  IF proc[p].a \notin M THEN Finish(@, RetNone)
                  ELSE [@ EXCEPT !.pc = "members", !.members = M]]
    /\ UNCHANGED <<storeVars, cache, redis_client, cacheUp, floor, deleted, started,
                   schemaVars, connVars, graphVars>>

\* The members' nodes are read and built with User(**u); the density follows,
\* and with fewer than two members it needs no further read.
DetectCommunitiesMembers(p) ==
    /\ At(p, "detect_communities", "members")
    /\ LET M == proc[p].members
           live == {i \in M : nodes[i] # NoUser}
       IN proc' = [proc EXCEPT ![p] =
                     IF \E i \in live : nodes[i].meta THEN Finish(@, Raise("ValidationError"))
                     ELSE IF Cardinality(M) < 2
                     THEN Finish(@, RetVal(Density(Cardinality(M), 0)))
                     ELSE [@ EXCEPT !.pc = "density"]]
    /\ UNCHANGED <<storeVars, cache, redis_client, cacheUp, floor, deleted, started,
                   schemaVars, connVars, graphVars>>

DetectCommunitiesDensity(p) ==
    /\ At(p, "detect_communities", "density")
    /\ proc' = [proc EXCEPT ![p] =
                  Finish(@, RetVal(Density(Cardinality(@.members),
                                           EdgeCount(@.members, rels))))]
    /\ UNCHANGED <<storeVars, cache, redis_client, cacheUp, floor, deleted, started,
                   schemaVars, connVars, graphVars>>

\* ------------------------------------------------------------- influence score
\* Centrality scores are kept in tenths.  The degree is a count; betweenness
\* and closeness come from the store's analytics routines and are never
\* negative.
BetweennessScores == {0, 300}
ClosenessScores == {0, 10}

Centrality(d, b, c) == [kind |-> "centrality", degree |-> d, betweenness |-> b,
                        closeness |-> c]

\* score = degree * 0.3 + betweenness * 0.4 + closeness * 0.3 and score * 10,
\* in tenths.
Weighted(c) == 3 * c.degree + 4 * c.betweenness + 3 * c.closeness

\* calculate_influence_score without min().
UnclampedScore(c) == [kind |-> "score", score |-> Weighted(c), of |-> c]

\* return min(100, score * 10)
InfluenceScore(c) == [kind |-> "score", score |-> Min(1000, Weighted(c)), of |-> c]

StartInfluenceScore(p, id) ==
    Begin(p, [Call("calculate_influence_score", "degree")
                 EXCEPT !.a = id, !.data = Centrality(0, 0, 0)])

\* centrality_measures, "degree": count(r) over every edge at the user; a
\* failed query counts as 0.
InfluenceDegree(p, ok) ==
    /\ At(p, "calculate_influence_score", "degree")
    /\ proc' = [proc EXCEPT ![p].pc = "betweenness",
                            ![p].data.degree =
                                IF ok /\ nodes[proc[p].a] # NoUser
                                THEN 10 * NodeDegree(proc[p].a, rels) ELSE 0]
    /\ UNCHANGED <<storeVars, cache, redis_client, cacheUp, floor, deleted, started,
                   schemaVars, connVars, graphVars>>

\* centrality_measures, "betweenness": the routine's score, 0 when it fails.
InfluenceBetweenness(p, score) ==
    /\ At(p, "calculate_influence_score", "betweenness")
    /\ proc' = [proc EXCEPT ![p].pc = "closeness", ![p].data.betweenness = score]
    /\ UNCHANGED <<storeVars, cache, redis_client, cacheUp, floor, deleted, started,
                   schemaVars, connVars, graphVars>>

\* centrality_measures, "closeness", and the weighted, clamped score.
InfluenceCloseness(p, score) ==
    /\ At(p, "calculate_influence_score", "closeness")
    /\ proc' = [proc EXCEPT ![p] =
                  Finish(@, RetVal(InfluenceScore([@.data EXCEPT !.closeness = score])))]
    /\ UNCHANGED <<storeVars, cache, redis_client, cacheUp, floor, deleted, started,
                   schemaVars, connVars, graphVars>>

AnalyticsStep(p) ==
    \/ \E M \in SUBSET Ids : StartDensity(p, M)
    \/ DensityRead(p)
    \/ \E id \in Ids : StartDetectCommunities(p, id)
    \/ \E M \in SUBSET Ids : DetectCommunitiesDetect(p, M)
    \/ DetectCommunitiesMembers(p)
    \/ DetectCommunitiesDensity(p)
    \/ \E id \in Ids : StartInfluenceScore(p, id)
    \/ \E ok \in BOOLEAN : InfluenceDegree(p, ok)
    \/ \E s \in BetweennessScores : InfluenceBetweenness(p, s)
    \/ \E s \in ClosenessScores : InfluenceCloseness(p, s)

\* ------------------------------------------------------------- interactions
InteractionTypes == {"MESSAGE", "VIEW"}

\* An Interaction node as record_interaction writes it: metadata holds the
\* text json.dumps made of the request's dict, timestamp the call's `now`.
\* The node hangs between its users, (from)-[:INITIATED]->(i)-[:TARGETED]->(to).
InteractionNode(i, a, b, t, at) ==
    [id |-> i, from |-> a, to |-> b, type |-> t, timestamp |-> at, metadata |-> "str"]

\* The INITIATED and TARGETED edges between a user and an interaction.
InitiatedOrTargeted(u, i) ==
    (IF i.from = u THEN 1 ELSE 0) + (IF i.to = u THEN 1 ELSE 0)

\* Interaction(**node): metadata is declared Optional[Dict[str, Any]], which a
\* text does not validate as.
BuildInteractions(rows) ==
    IF \E k \in 1..Len(rows) : rows[k].metadata = "str" THEN Raise("ValidationError")
    ELSE RetVal([list |-> rows])

StartRecordInteraction(p, a, b, t) ==
    Begin(p, [Call("record_interaction", "write") EXCEPT !.a = a, !.b = b, !.t = t])

\* MATCH (from), (to) CREATE (i:Interaction {...}) CREATE (from)-[:INITIATED]->
\* (i)-[:TARGETED]->(to) RETURN i, committed; then Interaction(**result[0]["i"]).
RecordInteractionWrite(p) ==
    /\ At(p, "record_interaction", "write")
    /\ Cardinality(inter) < MaxInter
    /\ LET a == proc[p].a
           b == proc[p].b
           i == InteractionNode(Cardinality(inter) + 1, a, b, proc[p].t, proc[p].now)
       IN IF nodes[a] # NoUser /\ nodes[b] # NoUser
          THEN /\ inter' = inter \cup {i}
               /\ proc' = [proc EXCEPT ![p] = Finish(@, BuildInteractions(<<i>>))]
          ELSE /\ inter' = inter
               /\ proc' = [proc EXCEPT ![p] = Finish(@, Raise("IndexError"))]
    /\ UNCHANGED <<storeVars, cache, redis_client, cacheUp, floor, deleted, started,
                   schemaVars, connVars, bulk, settled>>

\* ORDER BY i.timestamp DESC over the rows of the match: one row for each
\* edge between the user and an interaction.
RECURSIVE OrderByTimestampDesc(_, _)
OrderByTimestampDesc(S, u) ==
    IF S = {} THEN <<>>
    ELSE LET i == CHOOSE x \in S : \A y \in S : y.timestamp <= x.timestamp
         IN (IF InitiatedOrTargeted(u, i) = 2 THEN <<i, i>> ELSE <<i>>)
               \o OrderByTimestampDesc(S \ {i}, u)

\* MATCH (u:User {id})-[:INITIATED|TARGETED]-(i:Interaction) [WHERE i.type =
\* $type] RETURN i ORDER BY i.timestamp DESC LIMIT $limit; the type "" stands
\* for no type given.
UserInteractions(u, type, limit) ==
    IF nodes[u] = NoUser THEN <<>>
    ELSE LET S == {i \in inter : InitiatedOrTargeted(u, i) > 0
                                   /\ (type = "" \/ i.type = type)}
             rows == OrderByTimestampDesc(S, u)
         IN SubSeq(rows, 1, Min(limit, Len(rows)))

StartGetUserInteractions(p, u, type, limit) ==
    Begin(p, [Call("get_user_interactions", "read") EXCEPT !.a = u, !.t = type,
                                                            !.n = limit])

GetUserInteractionsRead(p) ==
    /\ At(p, "get_user_interactions", "read")
    /\ proc' = [proc EXCEPT ![p] =
                  Finish(@, BuildInteractions(UserInteractions(@.a, @.t, @.n)))]
    /\ UNCHANGED <<storeVars, cache, redis_client, cacheUp, floor, deleted, started,
                   schemaVars, connVars, graphVars>>

\* ------------------------------------------------------------- shortest path
\* The vertices of the stored graph: User nodes and Interaction nodes.
UserVertex(u) == <<"User", u>>
InteractionVertex(i) == <<"Interaction", i>>

\* (v)-[]-(w) for an edge of any type, in either direction.
Neighbours(v, R) ==
    IF v[1] = "User"
    THEN {UserVertex(r.to) : r \in {x \in R : x.from = v[2]}}
           \cup {UserVertex(r.from) : r \in {x \in R : x.to = v[2]}}
           \cup {InteractionVertex(i.id) : i \in {x \in inter : InitiatedOrTargeted(v[2], x) > 0}}
    ELSE UNION {{UserVertex(u) : u \in {x \in {i.from, i.to} : nodes[x] # NoUser}}
                  : i \in {x \in inter : x.id = v[2]}}

\* (v)-[:RELATES_TO]-(w): the relationships between users only.
UserNeighbours(v, R) ==
    {UserVertex(r.to) : r \in {x \in R : x.from = v[2]}}
      \cup {UserVertex(r.from) : r \in {x \in R : x.to = v[2]}}

\* The vertices within n edges of the vertices S.
RECURSIVE Within(_, _, _)
Within(S, n, R) ==
    IF n = 0 THEN S
    ELSE LET W == Within(S, n - 1, R) IN W \cup UNION {Neighbours(v, R) : v \in W}

RECURSIVE WithinByRelationships(_, _, _)
WithinByRelationships(S, n, R) ==
    IF n = 0 THEN S
    ELSE LET W == WithinByRelationships(S, n - 1, R)
         IN W \cup UNION {UserNeighbours(v, R) : v \in W}

\* A chain of at most max_hops relationships between users joins s and t.
Connected(s, t, max_hops, R) ==
    /\ nodes[s] # NoUser /\ nodes[t] # NoUser
    /\ UserVertex(t) \in WithinByRelationships({UserVertex(s)}, max_hops, R)

\* MATCH (start:User), (end:User) MATCH path = shortestPath((start)-[*..%d]-
\* (end)) RETURN length(path): -1 stands for no row.
ShortestPath(s, t, max_hops, R) ==
    IF nodes[s] = NoUser \/ nodes[t] = NoUser THEN -1
    ELSE IF UserVertex(t) \notin Within({UserVertex(s)}, max_hops, R) THEN -1
    ELSE CHOOSE n \in 0..max_hops :
            /\ UserVertex(t) \in Within({UserVertex(s)}, n, R)
            /\ \A m \in 0..(n - 1) : UserVertex(t) \notin Within({UserVertex(s)}, m, R)

\* PathResult(path=result["path"], length=...): the row's path is the list
\* node, relationship type, node, ...; path is declared List[Dict[str, Any]],
\* which the relationship types, being texts, do not validate as.
BuildPathResult(length) ==
    IF length > 0 THEN Raise("ValidationError")
    ELSE RetVal([kind |-> "path", length |-> length])

StartFindShortestPath(p, s, t, max_hops) ==
    /\ s # t
    /\ Begin(p, [Call("find_shortest_path", "read") EXCEPT !.a = s, !.b = t,
                                                           !.n = max_hops])

\* result = await self.db.shortest_path(...); if not result: return None
FindShortestPathRead(p) ==
    /\ At(p, "find_shortest_path", "read")
    /\ LET length == ShortestPath(proc[p].a, proc[p].b, proc[p].n, rels)
       IN proc' = [proc EXCEPT ![p] =
                     IF length < 0 THEN Finish(@, RetNone)
                     ELSE [@ EXCEPT !.pc = "nodes", !.f = length]]
    /\ UNCHANGED <<storeVars, cache, redis_client, cacheUp, floor, deleted, started,
                   schemaVars, connVars, graphVars>>

\* The users on the path are read and built with User(**n); then the result.
FindShortestPathNodes(p) ==
    /\ At(p, "find_shortest_path", "nodes")
    /\ proc' = [proc EXCEPT ![p] =
                  IF \E u \in {proc[p].a, proc[p].b} : nodes[u].meta
                  THEN Finish(@, Raise("ValidationError"))
                  ELSE Finish(@, BuildPathResult(@.f))]
    /\ UNCHANGED <<storeVars, cache, redis_client, cacheUp, floor, deleted, started,
                   schemaVars, connVars, graphVars>>

InteractionStep(p) ==
    \/ \E a, b \in Ids, t \in InteractionTypes : StartRecordInteraction(p, a, b, t)
    \/ RecordInteractionWrite(p)
    \/ \E u \in Ids, t \in InteractionTypes \cup {""}, limit \in 1..MaxLimit :
          StartGetUserInteractions(p, u, t, limit)
    \/ GetUserInteractionsRead(p)
    \/ \E s, t \in Ids, h \in 1..MaxHops : StartFindShortestPath(p, s, t, h)
    \/ FindShortestPathRead(p)
    \/ FindShortestPathNodes(p)

\* ------------------------------------------------------------- recommend_connections
Other(e, v) == IF e.from = v THEN e.to ELSE e.from

\* (u)-[:RELATES_TO]-(v)
Adjacent(u, R) == {Other(e, u) : e \in Incident(u, R)}

\* The paths (v)-[:RELATES_TO*n]-(w) over the edges E: a relationship is
\* traversed at most once in a path, a node as often as the edges allow.
RECURSIVE Trails(_, _, _, _)
RECURSIVE TrailsOver(_, _, _, _, _)
Trails(v, w, n, E) ==
    IF n = 0 THEN (IF v = w THEN 1 ELSE 0)
    ELSE TrailsOver(v, w, n, E, Incident(v, E))

TrailsOver(v, w, n, E, todo) ==
    IF todo = {} THEN 0
    ELSE LET e == CHOOSE x \in todo : TRUE
         IN Trails(Other(e, v), w, n - 1, E \ {e}) + TrailsOver(v, w, n, E, todo \ {e})

\* COUNT(*) AS mutual_count: the rows of (u)-[:RELATES_TO*2..3]-(v).
PathCount(u, v, R) == Trails(u, v, 2, R) + Trails(u, v, 3, R)

\* The users the variable-length match reaches, with no WHERE clause.
Reached(u, R) == {v \in DOMAIN nodes : nodes[v] # NoUser /\ PathCount(u, v, R) > 0}

\* The candidates of a query without its WHERE clause.
UnfilteredCandidates(u, R) == Reached(u, R)

\* ... WHERE NOT (u)-[:RELATES_TO]-(recommended) AND u <> recommended
Candidates(u, R) == {v \in Reached(u, R) : v # u /\ v \notin Adjacent(u, R)}

\* ORDER BY mutual_count DESC: the orders the sort may give the candidates,
\* equal counts in any order.
Ranked(u, R) ==
    LET C == Candidates(u, R)
        n == Cardinality(C)
    IN {s \in [1..n -> C] :
           /\ \A j, k \in 1..n : j # k => s[j] # s[k]
           /\ \A j, k \in 1..n : j < k => PathCount(u, s[j], R) >= PathCount(u, s[k], R)}

\* (u)-[:RELATES_TO]-(mutual:User)-[:RELATES_TO]-(recommended)
Mutual(u, v, R) == Adjacent(u, R) \cap Adjacent(v, R)

\* mutual_connections[:5]: the first five of the collected users, which for
\* more than five is some five of them.
FirstFive(S) ==
    IF Cardinality(S) <= 5 THEN S ELSE CHOOSE T \in SUBSET S : Cardinality(T) = 5

\* LIMIT $limit, then the second MATCH, which leaves out a candidate with no
\* mutual user, and the rows of the RETURN.
Recommendations(u, limit, order, R) ==
    LET top == SubSeq(order, 1, Min(limit, Len(order)))
        HasMutual(v) == Mutual(u, v, R) # {}
        kept == SelectSeq(top, HasMutual)
    IN [k \in 1..Len(kept) |->
          [user |-> kept[k], mutual_count |-> PathCount(u, kept[k], R),
           mutual_connections |-> FirstFive(Mutual(u, kept[k], R))]]

\* User(**r["recommended"]) and User(**m) for the mutual users.
BuildRecommendations(rows) ==
    IF \E k \in 1..Len(rows) :
          nodes[rows[k].user].meta \/ \E m \in rows[k].mutual_connections : nodes[m].meta
    THEN Raise("ValidationError")
    ELSE RetVal([list |-> rows])

StartRecommendConnections(p, u, limit) ==
    Begin(p, [Call("recommend_connections", "read") EXCEPT !.a = u, !.n = limit])

\* The result is kept with the call's user and limit.
RecommendConnectionsRead(p) ==
    /\ At(p, "recommend_connections", "read")
    /\ \E order \in Ranked(proc[p].a, rels) :
          proc' = [proc EXCEPT ![p] =
                     [Finish(@, BuildRecommendations(
                                   Recommendations(@.a, @.n, order, rels)))
                         EXCEPT !.a = proc[p].a, !.n = proc[p].n]]
    /\ UNCHANGED <<storeVars, cache, redis_client, cacheUp, floor, deleted, started,
                   schemaVars, connVars, graphVars>>

GraphIds == 1..GraphUsers
Pairs == {pr \in GraphIds \X GraphIds : pr[1] < pr[2]}
PairId(pr) == 2 * ((pr[1] - 1) * GraphUsers + pr[2]) - 1

\* The edges create_relationship leaves between the pairs: none, one edge, or
\* the two edges of a bidirectional call.
GraphRels(mult) ==
    {Rel(PairId(pr), pr[1], pr[2], "FOLLOWS", PairId(pr)) : pr \in {x \in Pairs : mult[x] >= 1}}
      \cup {Rel(PairId(pr) + 1, pr[2], pr[1], "FOLLOWS", PairId(pr))
              : pr \in {x \in Pairs : mult[x] = 2}}

Graphs ==
    {G \in {GraphRels(mult) : mult \in [Pairs -> 0..2]} : Cardinality(G) <= MaxGraphRels}

\* ------------------------------------------------------------- cache layer
\* RedisCache.set, set_many, increment and delete_pattern, called directly.
CacheLayerOps == {"set", "set_many", "increment", "delete_pattern"}

\* The keys the direct calls are made with, which are the keys a scan walks.
LayerKeys == {UserKey(1), RelListKey(1, "all"), RelListKey(1, "FOLLOWS")}

\* The `expire` arguments of set and set_many (3600 is the default).
SetExpires == {60, 3600}

\* A value stored by set or set_many with its TTL, and a counter as INCRBY
\* leaves it (ver holds the count).
TextEntry(expire) == [kind |-> "text", ver |-> 0, meta |-> FALSE, deg |-> 0, list |-> {},
                      expire |-> expire]
CounterEntry(n, expire) == [kind |-> "counter", ver |-> n, meta |-> FALSE, deg |-> 0,
                            list |-> {}, expire |-> expire]

\* INCRBY key amount: a missing key is created at 0 with no expiry and then
\* incremented; a counter keeps the expiry it has; a value that is no integer
\* is an error, which increment swallows.
Incrby(c, up, k, amount) ==
    IF ~up THEN c
    ELSE IF c[k] = NoEntry THEN [c EXCEPT ![k] = CounterEntry(amount, 0)]
    ELSE IF c[k].kind = "counter"
    THEN [c EXCEPT ![k] = CounterEntry(c[k].ver + amount, c[k].expire)]
    ELSE c

\* The keys a glob pattern matches: "user:<i>:relationships:*" and "user:<i>*".
RelListPattern(i) == "user:" \o ToString(i) \o ":relationships:*"
UserPattern(i) == "user:" \o ToString(i) \o "*"
Patterns == {RelListPattern(i) : i \in Ids} \cup {UserPattern(i) : i \in Ids}
Glob(pattern) ==
    {RelListKey(i, t) : i \in {j \in Ids : pattern \in {RelListPattern(j), UserPattern(j)}},
                        t \in RelTypes \cup {"all"}}
      \cup {UserKey(i) : i \in {j \in Ids : pattern = UserPattern(j)}}
      \cup {RelInvalidationKey(i) : i \in {j \in Ids : pattern = UserPattern(j)}}

\* History: a key written while it was absent is new to every delete_pattern
\* in progress.
Noted(q, K) ==
    IF proc[q].op = "delete_pattern" /\ proc[q].pc \notin {"idle", "done"}
    THEN [proc[q] EXCEPT !.fresh = @ \cup {k \in K : cache[k] = NoEntry}]
    ELSE proc[q]

StartCacheSet(p, k, expire) ==
    Begin(p, [Call("set", "call") EXCEPT !.members = {k}, !.n = expire])

StartCacheSetMany(p, K, expire) ==
    /\ K # {} /\ Cardinality(K) <= MaxBatch
    /\ Begin(p, [Call("set_many", "call") EXCEPT !.members = K, !.n = expire])

StartCacheIncrement(p, k) ==
    /\ cache[k].kind = "counter" => cache[k].ver < MaxCount
    /\ Begin(p, [Call("increment", "call") EXCEPT !.members = {k}, !.n = 1])

StartDeletePattern(p, pattern) ==
    Begin(p, [Call("delete_pattern", "call") EXCEPT !.t = pattern])

\* if not self.redis_client: await self.connect() -- outside the try.
CacheLayerConnectFails(p) ==
    /\ proc[p].op \in CacheLayerOps /\ proc[p].pc = "call"
    /\ ConnectRaises(redis_client, cacheUp)
    /\ redis_client' = TRUE
    /\ proc' = [proc EXCEPT ![p] = Finish(@, Raise("ConnectionError"))]
    /\ UNCHANGED <<storeVars, cache, cacheUp, floor, deleted, started, schemaVars, connVars, graphVars>>

\* setex(key, expire, value); an error is logged and False returned.
CacheLayerSet(p) ==
    /\ At(p, "set", "call")
    /\ CacheReady
    /\ redis_client' = TRUE
    /\ LET k == CHOOSE x \in proc[p].members : TRUE
       IN /\ cache' = CacheSet(cache, cacheUp, k, TextEntry(proc[p].n))
          /\ proc' = [q \in Procs |->
                        IF q = p THEN Finish(proc[p], RetVal([ok |-> cacheUp]))
                        ELSE IF cacheUp THEN Noted(q, {k}) ELSE proc[q]]
    /\ UNCHANGED <<storeVars, cacheUp, floor, deleted, started, schemaVars, connVars, graphVars>>

\* One pipeline of setex commands, executed as a transaction.
CacheLayerSetMany(p) ==
    /\ At(p, "set_many", "call")
    /\ CacheReady
    /\ redis_client' = TRUE
    /\ cache' = IF cacheUp
                THEN [k \in Keys |-> IF k \in proc[p].members THEN TextEntry(proc[p].n)
                                     ELSE cache[k]]
                ELSE cache
    /\ proc' = [q \in Procs |->
                  IF q = p THEN Finish(proc[p], RetVal([ok |-> cacheUp]))
                  ELSE IF cacheUp THEN Noted(q, proc[p].members) ELSE proc[q]]
    /\ UNCHANGED <<storeVars, cacheUp, floor, deleted, started, schemaVars, connVars, graphVars>>

\* return await self.redis_client.incrby(key, amount); 0 on an error.
CacheLayerIncrement(p) ==
    /\ At(p, "increment", "call")
    /\ CacheReady
    /\ redis_client' = TRUE
    /\ LET k == CHOOSE x \in proc[p].members : TRUE
       IN /\ cache' = Incrby(cache, cacheUp, k, proc[p].n)
          /\ proc' = [q \in Procs |->
                        IF q = p
                        THEN Finish(proc[p], RetVal([count |->
                                IF cache'[k].kind = "counter" /\ cacheUp
                                THEN cache'[k].ver ELSE 0]))
                        ELSE IF cacheUp THEN Noted(q, {k}) ELSE proc[q]]
    /\ UNCHANGED <<storeVars, cacheUp, floor, deleted, started, schemaVars, connVars, graphVars>>

\* cursor, keys = scan(cursor, match=pattern, count=100): the next page of the
\* keyspace, in the order the store walks it, and of it the keys that exist
\* and match.  cursor is 0 again when every key has been walked.  An error is
\* logged and the call returns.
DeletePatternScan(p, page) ==
    /\ proc[p].op = "delete_pattern" /\ proc[p].pc \in {"call", "scan"}
    /\ proc[p].pc = "call" => CacheReady
    /\ redis_client' = TRUE
    /\ page \subseteq LayerKeys \ proc[p].seen
    /\ Cardinality(page) = Min(ScanCount, Cardinality(LayerKeys \ proc[p].seen))
    /\ proc' = [proc EXCEPT ![p] =
                  IF ~cacheUp THEN Finish(@, RetNone)
                  ELSE [@ EXCEPT !.pc = "delete", !.seen = @ \cup page,
                                 !.members = {k \in page : cache[k] # NoEntry
                                                            /\ k \in Glob(proc[p].t)}]]
    /\ UNCHANGED <<storeVars, cache, cacheUp, floor, deleted, started, schemaVars, connVars, graphVars>>

\* delete_pattern that stops after its first page.
DeletePatternFirstPage(p) ==
    /\ At(p, "delete_pattern", "delete")
    /\ cache' = IF cacheUp
                THEN [k \in Keys |-> IF k \in proc[p].members THEN NoEntry ELSE cache[k]]
                ELSE cache
    /\ proc' = [proc EXCEPT ![p] = Finish(@, RetNone)]
    /\ UNCHANGED <<storeVars, redis_client, cacheUp, floor, deleted, started, schemaVars,
                   connVars, graphVars>>

\* if keys: delete(*keys); if cursor == 0: break
DeletePatternDelete(p) ==
    /\ At(p, "delete_pattern", "delete")
    /\ cache' = IF cacheUp
                THEN [k \in Keys |-> IF k \in proc[p].members THEN NoEntry ELSE cache[k]]
                ELSE cache
    /\ proc' = [proc EXCEPT ![p] =
                  IF (~cacheUp /\ proc[p].members # {}) \/ proc[p].seen = LayerKeys
                  THEN Finish(@, RetNone)
                  ELSE [@ EXCEPT !.pc = "scan", !.members = {}]]
    /\ UNCHANGED <<storeVars, redis_client, cacheUp, floor, deleted, started, schemaVars,
                   connVars, graphVars>>

CacheLayerStep(p) ==
    \/ \E k \in LayerKeys, e \in SetExpires : StartCacheSet(p, k, e)
    \/ \E K \in SUBSET LayerKeys, e \in SetExpires : StartCacheSetMany(p, K, e)
    \/ \E k \in LayerKeys : StartCacheIncrement(p, k)
    \/ \E pattern \in Patterns : StartDeletePattern(p, pattern)
    \/ CacheLayerConnectFails(p)
    \/ CacheLayerSet(p)
    \/ CacheLayerSetMany(p)
    \/ CacheLayerIncrement(p)
    \/ \E page \in SUBSET LayerKeys : DeletePatternScan(p, page)
    \/ DeletePatternDelete(p)

\* ------------------------------------------------------------- store connection
\* Neo4jConnection: the lazily connected asynchronous driver, the synchronous
\* driver, centrality_measures called directly, and the readiness probe.
Measures == <<"degree", "betweenness", "closeness">>
MeasureNames == {Measures[k] : k \in 1..Len(Measures)}

\* What a measure's query returns when it is answered: count(r) at the user
\* (no row counts as 0), or the analytics routine's score.
Answers(m, id) ==
    IF m = "degree"
    THEN {IF nodes[id] # NoUser THEN 10 * NodeDegree(id, rels) ELSE 0}
    ELSE IF m = "betweenness" THEN BetweennessScores
    ELSE ClosenessScores

\* centrality_measures that gives up the measures it has on a failure.
MeasuredOrCleared(results, m, fails, answer) ==
    IF fails THEN [k \in DOMAIN results \cup {m} |-> 0]
    ELSE [k \in DOMAIN results \cup {m} |-> IF k = m THEN answer ELSE results[k]]

\* try: results[measure] = result[0].get(...) if result else 0
\* except: results[measure] = 0
Measured(results, m, fails, answer) ==
    [k \in DOMAIN results \cup {m} |->
        IF k = m THEN (IF fails THEN 0 ELSE answer) ELSE results[k]]

\* The store becomes unreachable, or reachable again.
StoreOutage ==
    /\ storeUp' = ~storeUp
    /\ UNCHANGED <<storeVars, cache, redis_client, cacheUp, proc, floor, deleted, started,
                   schemaVars, driver, async_driver, clients, graphVars>>

StartCentralityMeasures(p, id) ==
    Begin(p, [Call("centrality_measures", "degree") EXCEPT !.a = id])

\* One pass of the loop: execute_read connects the asynchronous driver when
\* there is none (the driver is kept even when its verification fails) and
\* runs the query in a read transaction.  The connection error, a failed
\* transaction and a failed routine all end in the except clause.
CentralityMeasure(p, ok) ==
    /\ proc[p].op = "centrality_measures" /\ proc[p].pc \in MeasureNames
    /\ async_driver' = TRUE
    /\ LET m == proc[p].pc
           k == CHOOSE j \in 1..Len(Measures) : Measures[j] = m
           fails == ~storeUp \/ ~ok
       IN \E answer \in Answers(m, proc[p].a) :
          proc' = [proc EXCEPT
                     ![p].pc = IF k < Len(Measures) THEN Measures[k + 1] ELSE "return",
                     ![p].results = Measured(@, m, fails, answer),
                     ![p].failed = IF fails THEN @ \cup {m} ELSE @,
                     ![p].answered = IF fails THEN @
                                     ELSE [j \in DOMAIN @ \cup {m} |->
                                             IF j = m THEN answer ELSE @[j]]]
    /\ UNCHANGED <<storeVars, cache, redis_client, cacheUp, floor, deleted, started,
                   schemaVars, driver, storeUp, clients, graphVars>>

\* return results
CentralityMeasuresReturn(p) ==
    /\ At(p, "centrality_measures", "return")
    /\ proc' = [proc EXCEPT ![p] = Finish(@, RetVal(@.results))]
    /\ UNCHANGED <<storeVars, cache, redis_client, cacheUp, floor, deleted, started,
                   schemaVars, connVars, graphVars>>

StartReadinessCheck(p) ==
    Begin(p, Call("readiness_check", "verify"))

\* verify_connectivity(): True when the synchronous driver exists and its
\* verification passes, False otherwise; /ready answers 503 on False.
VerifyConnectivity == driver /\ storeUp

ReadinessCheck(p) ==
    /\ At(p, "readiness_check", "verify")
    /\ proc' = [proc EXCEPT ![p] =
                  Finish(@, IF VerifyConnectivity THEN RetVal([status |-> "ready"])
                            ELSE Raise("HTTPException"))]
    /\ UNCHANGED <<storeVars, cache, redis_client, cacheUp, floor, deleted, started,
                   schemaVars, connVars, graphVars>>

ConnectionStep(p) ==
    \/ \E id \in Ids : StartCentralityMeasures(p, id)
    \/ \E ok \in BOOLEAN : CentralityMeasure(p, ok)
    \/ CentralityMeasuresReturn(p)
    \/ StartReadinessCheck(p)
    \/ ReadinessCheck(p)

\* ------------------------------------------------------------- statistics
\* What the store holds: User and Interaction nodes; RELATES_TO edges and the
\* INITIATED and TARGETED edges of each interaction.
UserCount == Cardinality({i \in Ids : nodes[i] # NoUser})
TotalNodes == UserCount + Cardinality(inter)
TotalRelationships == Cardinality(rels) + 2 * Cardinality(inter)

\* toFloat(rel_count) / toFloat(node_count), in hundredths.
AvgDegree(r, n) == IF n = 0 THEN 0 ELSE (100 * r) \div n

NoStats == [kind |-> "stats", rows |-> 0, total_nodes |-> 0, total_relationships |-> 0,
            avg_degree |-> 0]

\* MATCH (n) WITH count(n) as node_count       -- one row, also for no node
\* MATCH ()-[r]->() WITH node_count, count(r)  -- grouped by node_count: no
\*                                                edge, no row
\* MATCH (u:User) WITH ..., count(u)           -- no User node, no row
\* RETURN {...} as stats; result[0]["stats"] if result else {}
StatsQuery(n, r, u) ==
    IF r = 0 \/ u = 0 THEN NoStats
    ELSE [kind |-> "stats", rows |-> 1, total_nodes |-> n, total_relationships |-> r,
          avg_degree |-> AvgDegree(r, n)]

\* MATCH (n) RETURN labels(n)[0] as type, count(n): a row per label in use.
NodeTypes ==
    [l \in {x \in {"User"} : UserCount > 0} \cup {x \in {"Interaction"} : inter # {}} |->
        IF l = "User" THEN UserCount ELSE Cardinality(inter)]

\* MATCH ()-[r]->() RETURN type(r) as type, count(r): a row per type in use.
RelationshipTypes ==
    [l \in {x \in {"RELATES_TO"} : rels # {}}
             \cup {x \in {"INITIATED", "TARGETED"} : inter # {}} |->
        IF l = "RELATES_TO" THEN Cardinality(rels) ELSE Cardinality(inter)]

\* GraphStatistics(total_nodes=stats.get("total_nodes", 0), ...,
\* average_degree=stats.get("avg_degree", 0), ...)
GraphStatistics(stats, nodeTypes, relTypes) ==
    [kind |-> "statistics", total_nodes |-> stats.total_nodes,
     total_relationships |-> stats.total_relationships,
     average_degree |-> stats.avg_degree,
     node_types |-> nodeTypes, relationship_types |-> relTypes]

StartGetStatistics(p) == Begin(p, Call("get_statistics", "read"))

\* stats = await self.db.get_statistics()
GetStatisticsRead(p) ==
    /\ At(p, "get_statistics", "read")
    /\ proc' = [proc EXCEPT ![p].pc = "node_types",
                            ![p].data = StatsQuery(TotalNodes, TotalRelationships,
                                                   UserCount)]
    /\ UNCHANGED <<storeVars, cache, redis_client, cacheUp, floor, deleted, started,
                   schemaVars, connVars, graphVars>>

\* node_types = await self.db.execute_read(node_type_query)
GetStatisticsNodeTypes(p) ==
    /\ At(p, "get_statistics", "node_types")
    /\ proc' = [proc EXCEPT ![p].pc = "rel_types", ![p].results = NodeTypes]
    /\ UNCHANGED <<storeVars, cache, redis_client, cacheUp, floor, deleted, started,
                   schemaVars, connVars, graphVars>>

\* rel_types = await self.db.execute_read(rel_type_query); return
\* GraphStatistics(...)
GetStatisticsRelTypes(p) ==
    /\ At(p, "get_statistics", "rel_types")
    /\ proc' = [proc EXCEPT ![p] =
                  Finish(@, RetVal(GraphStatistics(@.data, @.results, RelationshipTypes)))]
    /\ UNCHANGED <<storeVars, cache, redis_client, cacheUp, floor, deleted, started,
                   schemaVars, connVars, graphVars>>

\* ------------------------------------------------------------- raw queries
\* The statements a caller of POST /query may send.
Cyphers == {"MATCH (n) RETURN count(n)", "CREATE (:User)", "MATCH (n) DETACH DELETE n"}
Updating(cypher) == cypher # "MATCH (n) RETURN count(n)"

ReadOps == {"get_user", "get_user_relationships", "get_user_interactions",
            "find_shortest_path", "detect_communities", "calculate_influence_score",
            "recommend_connections", "get_statistics", "execute_query",
            "centrality_measures", "_calculate_community_density"}
WriteOps == {"create_user", "update_user", "delete_user", "create_relationship",
             "delete_relationship", "record_interaction"}

\* The raw query sent through Neo4jConnection.execute_query: session.run, an
\* auto-commit transaction in the session's default (write) access mode.
AutoCommitMode(op) == IF op \in ReadOps \ {"execute_query"} THEN "read" ELSE "write"

\* The access mode of the transactions an operation runs: execute_read for
\* every read operation, SocialGraphService.execute_query included, and
\* execute_write for the others.
TransactionMode(op) == IF op \in ReadOps THEN "read" ELSE "write"

StartExecuteQuery(p, cypher) ==
    Begin(p, [Call("execute_query", "run") EXCEPT !.cypher = cypher])

\* return await self.db.execute_read(cypher, parameters): the store refuses
\* an updating statement in a transaction of read access mode.
ExecuteQueryRun(p) ==
    /\ At(p, "execute_query", "run")
    /\ LET refused == Updating(proc[p].cypher) /\ TransactionMode(proc[p].op) = "read"
           creates == ~refused /\ proc[p].cypher = "CREATE (:User)"
                         /\ Cardinality(usedIds) < MaxUsers
           deletes == ~refused /\ proc[p].cypher = "MATCH (n) DETACH DELETE n"
           id == Cardinality(usedIds) + 1
       IN /\ nodes' = IF creates THEN [nodes EXCEPT ![id] = BulkNode]
                      ELSE IF deletes THEN [i \in Ids |-> NoUser] ELSE nodes
          /\ usedIds' = IF creates THEN usedIds \cup {id} ELSE usedIds
          /\ rels' = IF deletes THEN {} ELSE rels
          /\ inter' = IF deletes THEN {} ELSE inter
          /\ proc' = [proc EXCEPT ![p] =
                        Finish(@, IF refused THEN Raise("ClientError")
                                  ELSE RetVal([rows |-> IF Updating(proc[p].cypher) THEN 0
                                                        ELSE 1]))]
    /\ UNCHANGED <<usedRelIds, cache, redis_client, cacheUp, floor, deleted, started,
                   schemaVars, connVars, bulk, settled>>

\* ------------------------------------------------------------- lazy cache connection
\* RedisCache.get and RedisCache.delete on an instance that has no client
\* yet, step by step: the test of redis_client, connect() and the command.
LazyOps == {"get", "delete"}

\* connect() called without the test of redis_client.
EagerConnect(c) == [made |-> c.made + 1, id |-> c.made + 1]

\* if not self.redis_client: await self.connect(), up to connect()'s first
\* suspension: self.redis_client = await redis.Redis(...) makes the client
\* and assigns it without suspending (Redis.__await__ runs initialize(),
\* which awaits nothing for a pooled client).
LazyConnect(c) == IF c.id = 0 THEN [made |-> c.made + 1, id |-> c.made + 1] ELSE c

StartLazyOp(p, op, k) ==
    Begin(p, [Call(op, "check") EXCEPT !.members = {k}])

LazyOpCheck(p) ==
    /\ proc[p].op \in LazyOps /\ proc[p].pc = "check"
    /\ clients' = LazyConnect(clients)
    /\ redis_client' = TRUE
    /\ proc' = [proc EXCEPT ![p].pc = IF clients' # clients THEN "ping" ELSE "command"]
    /\ UNCHANGED <<storeVars, cache, cacheUp, floor, deleted, started, schemaVars,
                   driver, async_driver, storeUp, graphVars>>

\* await self.redis_client.ping(): a failure is logged and re-raised, out of
\* the operation; redis_client keeps the client.
LazyOpPing(p) ==
    /\ proc[p].op \in LazyOps /\ proc[p].pc = "ping"
    /\ proc' = [proc EXCEPT ![p] = IF cacheUp THEN [@ EXCEPT !.pc = "command"]
                                   ELSE Finish(@, Raise("ConnectionError"))]
    /\ UNCHANGED <<storeVars, cache, redis_client, cacheUp, floor, deleted, started,
                   schemaVars, connVars, graphVars>>

\* await self.redis_client.get(key) / delete(key) on the client redis_client
\* holds now; an error is logged, get returns None.  via is history: the
\* client the command went to.
LazyOpCommand(p) ==
    /\ proc[p].op \in LazyOps /\ proc[p].pc = "command"
    /\ LET k == CHOOSE x \in proc[p].members : TRUE
       IN /\ cache' = IF proc[p].op = "delete" THEN CacheDelete(cache, cacheUp, k)
                      ELSE cache
          /\ proc' = [proc EXCEPT ![p] =
                        [Finish(@, IF proc[p].op = "delete" \/ CacheGet(cache, cacheUp, k) = NoEntry
                                   THEN RetNone
                                   ELSE RetVal(CacheGet(cache, cacheUp, k)))
                           EXCEPT !.via = clients.id]]
    /\ UNCHANGED <<storeVars, redis_client, cacheUp, floor, deleted, started,
                   schemaVars, connVars, graphVars>>

\* ------------------------------------------------------------- schema provisioning
\* create_constraints' two statements, then create_indexes' five, in the
\* order initialize_schema and reindex run them.
Statements == <<"user_id_unique", "user_username_unique",
                "user_id", "user_username", "user_email",
                "interaction_timestamp", "relationship_type">>

AllStatements == {Statements[i] : i \in 1..Len(Statements)}

\* The loop moves on to the next statement; after the last one the run ends.
Advance(pr, sch) ==
    IF pr.i < Len(Statements) THEN [pr EXCEPT !.i = @ + 1, !.tried = @ \cup {pr.i}]
    ELSE [pr EXCEPT !.pc = "idle", !.i = 1, !.tried = @ \cup {pr.i}, !.runs = @ + 1,
                    !.first = IF pr.runs = 0 THEN sch ELSE @]

\* initialize_schema (at startup) or reindex is called.
StartProvision ==
    /\ prov.pc = "idle"
    /\ prov.runs < MaxRuns
    /\ prov' = [prov EXCEPT !.pc = "run", !.i = 1, !.tried = {}]
    /\ UNCHANGED <<serviceVars, schema, budget, connVars, graphVars>>

\* CREATE ... IF NOT EXISTS commits: the index or constraint exists afterwards.
StatementSucceeds ==
    /\ prov.pc = "run"
    /\ schema' = schema \cup {Statements[prov.i]}
    /\ prov' = Advance(prov, schema')
    /\ UNCHANGED <<serviceVars, budget, connVars, graphVars>>

\* The loop without its try/except: the failure ends the run.
StatementFailureEscapes ==
    /\ prov.pc = "run"
    /\ prov' = [prov EXCEPT !.pc = "idle", !.i = 1, !.tried = @ \cup {prov.i},
                            !.runs = @ + 1, !.failed = TRUE, !.raised = TRUE]
    /\ UNCHANGED <<serviceVars, schema, budget, connVars, graphVars>>

\* execute_write raises; the loop's except clause logs a warning and goes on.
StatementFails ==
    /\ prov.pc = "run"
    /\ prov' = Advance([prov EXCEPT !.failed = TRUE], schema)
    /\ UNCHANGED <<serviceVars, schema, budget, connVars, graphVars>>

\* ------------------------------------------------------------- specification
UserStep(p) ==
    \/ StartCreateUser(p) \/ CreateUserWrite(p) \/ CreateUserInvalidate(p)
    \/ \E id \in Ids : StartGetUser(p, id)
    \/ GetUserCacheGet(p) \/ GetUserRead(p) \/ GetUserCacheSet(p)
    \/ \E id \in Ids : StartUpdateUser(p, id)
    \/ UpdateUserWrite(p) \/ UpdateUserInvalidate(p)

DeleteUserStep(p) ==
    \/ \E id \in Ids : StartDeleteUser(p, id)
    \/ DeleteUserWrite(p) \/ DeleteUserInvalidate(p)

ClientStep(p) ==
    \/ WriteFails(p) \/ WriteRetried(p) \/ ReadFails(p)

\* Every call of the service, with a cache store that is reachable throughout.
NextUp ==
    \/ \E p \in Procs : UserStep(p)
    \/ \E p \in Procs : DeleteUserStep(p)
    \/ \E p \in Procs : RelStep(p)
    \/ \E p \in Procs : ClientStep(p)
    \/ \E k \in Keys : Expire(k)
    \/ BulkCreateNodes

\* The same, with a cache store that may be unreachable at any time.
Next ==
    \/ NextUp
    \/ \E p \in Procs : CacheConnectFails(p)
    \/ CacheOutage

\* The calls that read or write relationships, and delete_user's cascade.
NextRel ==
    \/ \E p \in Procs : RelStep(p)
    \/ \E p \in Procs : DeleteUserStep(p)
    \/ \E p \in Procs : ClientStep(p)
    \/ \E p \in Procs : CacheConnectFails(p)
    \/ \E k \in Keys : Expire(k)
    \/ BulkCreateNodes
    \/ CacheOutage

\* The bulk loads and the analytics calls.
NextAnalytics ==
    \/ \E n \in 1..MaxBatch : BulkCreateNodesBatch(n)
    \/ \E batch \in Batches : BulkCreateRelationships(batch)
    \/ \E n \in 1..MaxBatch : BulkWriteFails("nodes", n)
    \/ \E n \in 1..MaxBatch : BulkWriteFails("relationships", n)
    \/ \E p \in Procs : AnalyticsStep(p)
    \/ \E p \in Procs : ReadFails(p)

\* The interactions and the path search, over bulk-loaded users and edges.
NextInteractions ==
    \/ \E n \in 1..MaxBatch : BulkCreateNodesBatch(n)
    \/ \E batch \in [1..1 -> Ids \X Ids] : BulkCreateRelationships(batch)
    \/ \E p \in Procs : InteractionStep(p)
    \/ \E p \in Procs : ReadFails(p)
    \/ \E p \in Procs : WriteFails(p)

\* recommend_connections over a stored graph.
NextGraph ==
    \/ \E p \in Procs, u \in GraphIds, limit \in 1..MaxLimit :
          StartRecommendConnections(p, u, limit)
    \/ \E p \in Procs : RecommendConnectionsRead(p)
    \/ \E p \in Procs : ReadFails(p)

\* The calls that change what get_user counts, and get_user.
NextDegree ==
    \/ \E p \in Procs, id \in Ids : StartGetUser(p, id)
    \/ \E p \in Procs : GetUserCacheGet(p) \/ GetUserRead(p) \/ GetUserCacheSet(p)
    \/ \E p \in Procs, a, b \in Ids, t \in InteractionTypes :
          StartRecordInteraction(p, a, b, t)
    \/ \E p \in Procs : RecordInteractionWrite(p)
    \/ \E p \in Procs, a, b \in Ids, t \in RelTypes, bi \in BOOLEAN :
          StartCreateRelationship(p, a, b, t, bi)
    \/ \E p \in Procs : CreateRelationshipWrite(p)
    \/ \E p \in Procs : CreateRelationshipInvalidateFrom(p)
    \/ \E p \in Procs : CreateRelationshipInvalidateTo(p)
    \/ BulkCreateNodes

\* The reads that fill the cache, the update that invalidates, and expiry.
NextTtl ==
    \/ \E p \in Procs, id \in Ids : StartGetUser(p, id)
    \/ \E p \in Procs : GetUserCacheGet(p) \/ GetUserRead(p) \/ GetUserCacheSet(p)
    \/ \E p \in Procs, id \in Ids : StartUpdateUser(p, id)
    \/ \E p \in Procs : UpdateUserWrite(p) \/ UpdateUserInvalidate(p)
    \/ \E p \in Procs, id \in Ids, t \in RelTypes \cup {""} :
          StartGetUserRelationships(p, id, t)
    \/ \E p \in Procs : GetUserRelationshipsCacheGet(p)
    \/ \E p \in Procs : GetUserRelationshipsRead(p)
    \/ \E p \in Procs : GetUserRelationshipsCacheSet(p)
    \/ \E k \in Keys : Expire(k)
    \/ BulkCreateNodes

\* The cache layer on its own, with expiry and outages of the cache store.
NextCache ==
    \/ \E p \in Procs : CacheLayerStep(p)
    \/ \E k \in Keys : Expire(k)
    \/ CacheOutage

\* The store connection: centrality_measures and the readiness probe over
\* bulk-loaded users and edges, with outages of the store.
NextConnection ==
    \/ BulkCreateNodes
    \/ \E batch \in [1..1 -> Ids \X Ids] : BulkCreateRelationships(batch)
    \/ \E p \in Procs : ConnectionStep(p)
    \/ StoreOutage

\* Every read operation of the service beside the writes that change the
\* graph.
NextReads ==
    \/ BulkCreateNodes
    \/ \E p \in Procs, a, b \in Ids, t \in RelTypes, bi \in BOOLEAN :
          StartCreateRelationship(p, a, b, t, bi)
    \/ \E p \in Procs : CreateRelationshipWrite(p)
    \/ \E p \in Procs : CreateRelationshipInvalidateFrom(p)
    \/ \E p \in Procs : CreateRelationshipInvalidateTo(p)
    \/ \E p \in Procs, id \in Ids : StartGetUser(p, id)
    \/ \E p \in Procs : GetUserCacheGet(p) \/ GetUserRead(p) \/ GetUserCacheSet(p)
    \/ \E p \in Procs, id \in Ids, t \in RelTypes \cup {""} :
          StartGetUserRelationships(p, id, t)
    \/ \E p \in Procs : GetUserRelationshipsCacheGet(p)
    \/ \E p \in Procs : GetUserRelationshipsRead(p)
    \/ \E p \in Procs : GetUserRelationshipsCacheSet(p)
    \/ \E p \in Procs : InteractionStep(p)
    \/ \E p \in Procs : AnalyticsStep(p)
    \/ \E p \in Procs, u \in Ids, limit \in 1..MaxLimit :
          StartRecommendConnections(p, u, limit)
    \/ \E p \in Procs : RecommendConnectionsRead(p)
    \/ \E p \in Procs : StartGetStatistics(p)
    \/ \E p \in Procs : GetStatisticsRead(p)
    \/ \E p \in Procs : GetStatisticsNodeTypes(p)
    \/ \E p \in Procs : GetStatisticsRelTypes(p)
    \/ \E p \in Procs, cypher \in Cyphers : StartExecuteQuery(p, cypher)
    \/ \E p \in Procs : ExecuteQueryRun(p)
    \/ \E p \in Procs : ReadFails(p)

\* First operations on an unconnected cache client, with outages of the
\* cache store.
NextLazy ==
    \/ \E p \in Procs, op \in LazyOps, k \in LayerKeys : StartLazyOp(p, op, k)
    \/ \E p \in Procs : LazyOpCheck(p)
    \/ \E p \in Procs : LazyOpPing(p)
    \/ \E p \in Procs : LazyOpCommand(p)
    \/ CacheOutage

NextSchema == StartProvision \/ StatementSucceeds \/ StatementFails

InitUp == Init /\ cacheUp
InitRel ==
    /\ nodes = [i \in Ids |-> NoUser]
    /\ rels = {}
    /\ usedIds = {}
    /\ usedRelIds = {}
    /\ cache = [k \in Keys |-> NoEntry]
    /\ redis_client = FALSE
    /\ cacheUp \in BOOLEAN
    /\ proc = [p \in Procs |-> Idle]
    /\ floor = [i \in Ids |-> -1]
    /\ deleted = {}
    /\ started = 0
    /\ budget = MaxRelOps
    /\ schema = {}
    /\ prov = NoRun
    /\ inter = {}
    /\ bulk = NoBatch
    /\ settled = [i \in Ids |-> "no"]
    /\ driver = FALSE
    /\ async_driver = FALSE
    /\ storeUp = TRUE
    /\ clients = [made |-> 0, id |-> 0]

\* A graph of users and relationships, and one call on it.
InitGraph ==
    /\ nodes = [i \in GraphIds |-> BulkNode]
    /\ rels \in Graphs
    /\ usedIds = GraphIds
    /\ usedRelIds = {r.id : r \in rels}
    /\ cache = [k \in Keys |-> NoEntry]
    /\ redis_client = FALSE
    /\ cacheUp = TRUE
    /\ proc = [p \in Procs |-> Idle]
    /\ floor = [i \in Ids |-> -1]
    /\ deleted = {}
    /\ started = 0
    /\ budget = 1
    /\ schema = {}
    /\ prov = NoRun
    /\ inter = {}
    /\ bulk = NoBatch
    /\ settled = [i \in Ids |-> "no"]
    /\ driver = FALSE
    /\ async_driver = FALSE
    /\ storeUp = TRUE
    /\ clients = [made |-> 0, id |-> 0]

\* A new service instance in front of a cache store that holds values.
InitLazy ==
    /\ nodes = [i \in Ids |-> NoUser]
    /\ rels = {}
    /\ usedIds = {}
    /\ usedRelIds = {}
    /\ \E S \in SUBSET LayerKeys :
          cache = [k \in Keys |-> IF k \in S THEN TextEntry(3600) ELSE NoEntry]
    /\ redis_client = FALSE
    /\ cacheUp \in BOOLEAN
    /\ proc = [p \in Procs |-> Idle]
    /\ floor = [i \in Ids |-> -1]
    /\ deleted = {}
    /\ started = 0
    /\ budget = MaxOps
    /\ schema = {}
    /\ prov = NoRun
    /\ inter = {}
    /\ bulk = NoBatch
    /\ settled = [i \in Ids |-> "no"]
    /\ driver = FALSE
    /\ async_driver = FALSE
    /\ storeUp = TRUE
    /\ clients = [made |-> 0, id |-> 0]

Spec == Init /\ [][Next]_vars
SpecUp == InitUp /\ [][NextUp]_vars
SpecRel == InitRel /\ [][NextRel]_vars
SpecSchema == Init /\ [][NextSchema]_vars
SpecAnalytics == InitUp /\ [][NextAnalytics]_vars
SpecInteractions == InitUp /\ [][NextInteractions]_vars
SpecGraph == InitGraph /\ [][NextGraph]_vars
SpecDegree == InitUp /\ [][NextDegree]_vars
SpecCache == Init /\ [][NextCache]_vars
SpecConnection == InitUp /\ [][NextConnection]_vars
SpecReads == InitUp /\ [][NextReads]_vars
SpecLazy == InitLazy /\ [][NextLazy]_vars
\* Time passes: an entry whose TTL is running does expire.
SpecTtl == InitUp /\ [][NextTtl]_vars /\ \A k \in Keys : WF_vars(Expire(k))

\* ------------------------------------------------------------- claims
MutatingOps == {"create_user", "update_user", "delete_user", "create_relationship",
                "delete_relationship"}

Finishes(p, o) == proc[p].op = o /\ proc[p].pc # "done" /\ proc'[p].pc = "done"

\* C1: in every mutating call that touches the cache, a cache delete is
\* issued only after the call's store write has returned.
C1_DeleteAfterWrite == \A p \in Procs : proc[p].cd => proc[p].wr

C1_Witness ==
    \E p \in Procs : At(p, "create_relationship", "inval2") /\ proc[p].cd /\ proc[p].wr

\* C2: a get_user that starts after the cache delete of a write W of the
\* same user has returned does not return data older than W.
C2_NoStaleReadAfterInvalidation ==
    [][\A p \in Procs :
          (Finishes(p, "get_user") /\ proc'[p].ret.kind = "value")
              => proc'[p].ret.val.ver >= proc[p].f]_vars

\* C3: when get_user is answered from the cache entry, the data returned is
\* what a store read of the user returns at that moment.  Stated for the
\* node_degree of the data, and for the moments at which the user exists and
\* no mutating call is in progress, so that the window between a store write
\* and its cache delete is left out.
NoWriteInProgress == \A q \in Procs : proc[q].op \in MutatingOps => proc[q].pc = "done"

C3_CacheHitEqualsStoreRead ==
    [][\A p \in Procs :
          (At(p, "get_user", "cget") /\ proc'[p].pc = "done"
             /\ proc'[p].ret.kind = "value" /\ NoWriteInProgress
             /\ nodes[proc[p].a] # NoUser)
              => proc'[p].ret.val.deg = NodeDegree(proc[p].a, rels)]_vars

\* C4: when create_relationship(A -> B, T) returns successfully, no
\* relationship-list entry of A or B (for all types or for T) is left in the
\* cache without the new relationship.
C4_RelationshipListsInvalidated ==
    [][\A p \in Procs :
          (Finishes(p, "create_relationship") /\ proc'[p].ret.kind = "value")
              => \A x \in {proc[p].a, proc[p].b}, t \in {"all", proc[p].t} :
                    \/ cache'[RelListKey(x, t)] = NoEntry
                    \/ Rel(proc[p].rid, proc[p].a, proc[p].b, proc[p].t, proc[p].rid)
                          \in cache'[RelListKey(x, t)].list]_vars

C6_CacheFailureNeverRaised ==
    \A p \in Procs : proc[p].ret.err # "ConnectionError"

\* C7: a value enters the cache only from the cache-set of a read miss
\* (get_user, get_user_relationships), and that value is what the reader
\* read from the store; a mutating call never sets an entry.
C7_CacheFilledOnlyByReadMiss ==
    [][/\ \A k \in Keys :
            (cache'[k] # cache[k] /\ cache'[k] # NoEntry)
              => \E p \in Procs :
                    /\ proc[p].pc = "cset"
                    /\ proc'[p].pc = "done"
                    /\ \/ proc[p].op = "get_user" /\ k = UserKey(proc[p].a)
                       \/ /\ proc[p].op = "get_user_relationships"
                          /\ k = RelListKey(proc[p].a, TypeOrAll(proc[p].t))
                    /\ cache'[k] = proc[p].data
       /\ \A p \in Procs :
            (proc[p].pc = "read" /\ proc'[p].pc = "cset")
              => proc'[p].data =
                    IF proc[p].op = "get_user" THEN StoreUser(proc[p].a, nodes, rels)
                    ELSE ListEntry(StoreRels(proc[p].a, proc[p].t, nodes, rels))]_vars

C7_Witness ==
    /\ \E k \in Keys : cache[k].kind = "user"
    /\ \E p \in Procs : proc[p].op \in MutatingOps /\ proc[p].pc = "done"

\* C8: get_user of an id that never had a user returns None, or raises the
\* store's failure, and leaves no cache entry.
C8_AbsentUserReturnsNone ==
    [][\A p \in Procs :
          (Finishes(p, "get_user") /\ proc[p].a \notin usedIds')
              => /\ proc'[p].ret \in {RetNone, Raise("StoreError")}
                 /\ cache'[UserKey(proc[p].a)] = NoEntry]_vars

\* C9: a mutating call runs its store write at most once.
C9_WriteAttemptedOnce == \A p \in Procs : proc[p].att <= 1

C17_BidirectionalEdgesIndependent ==
    [][\A p \in Procs :
          /\ (/\ At(p, "create_relationship", "write") /\ proc'[p].pc = "inval"
              /\ proc[p].bidir
              /\ nodes[proc[p].a] # NoUser /\ nodes[proc[p].b] # NoUser)
                => \E r1, r2 \in rels' :
                      /\ rels' \ rels = {r1, r2}
                      /\ rels \subseteq rels'
                      /\ r1.id # r2.id
                      /\ r1.from = proc[p].a /\ r1.to = proc[p].b
                      /\ r2.from = proc[p].b /\ r2.to = proc[p].a
                      /\ r1.created_at = r2.created_at
          /\ (At(p, "delete_relationship", "write") /\ proc'[p].ret = RetNone)
                => \A r \in rels : r.id # proc[p].rid => r \in rels']_vars

\* The second edge of a bidirectional pair is in the store after the first
\* one has been deleted.
C17_Witness ==
    \E r \in rels : r.id # r.created_at /\ r.created_at \in deleted

\* C19: both endpoints of every relationship in the store are existing
\* users: the write of create_relationship with a missing endpoint adds no
\* edge and the call ends by raising, and the write of delete_user leaves no
\* edge incident to the deleted user.
C19_EndpointsExist ==
    [][/\ \A r \in rels' : nodes'[r.from] # NoUser /\ nodes'[r.to] # NoUser
       /\ \A p \in Procs :
            /\ (/\ At(p, "create_relationship", "write") /\ proc'[p].pc = "inval"
                /\ (nodes[proc[p].a] = NoUser \/ nodes[proc[p].b] = NoUser))
                  => rels' = rels /\ proc'[p].data = NoEntry
            /\ (Finishes(p, "create_relationship") /\ proc[p].wr /\ proc[p].data = NoEntry)
                  => proc'[p].ret.kind = "raise"
            /\ (At(p, "delete_user", "write") /\ proc'[p].pc = "inval")
                  => Incident(proc[p].a, rels') = {}]_vars

\* delete_user has deleted a user that had relationships.
C19_Witness ==
    \E p \in Procs : At(p, "delete_user", "inval") /\ proc[p].data.deg > 0

C18_BulkAllOrNothing ==
    bulk.kind # "none" => bulk.created \in {0, bulk.size}

\* C13: the density of a community of 0 or 1 members is exactly 0 and is
\* obtained without a division; no density computation divides by zero.
C13_DensityBoundary ==
    \A p \in Procs :
        (proc[p].op \in {"_calculate_community_density", "detect_communities"}
           /\ proc[p].pc = "done" /\ proc[p].ret.kind = "value")
            => /\ proc[p].ret.val.den # 0
               /\ proc[p].ret.val.size < 2
                    => proc[p].ret.val.num = 0 /\ ~proc[p].ret.val.div

C13_Witness ==
    \E p, q \in Procs :
        /\ proc[p].op = "_calculate_community_density" /\ proc[p].pc = "done"
        /\ proc[p].ret.kind = "value" /\ proc[p].ret.val.size = 0
        /\ proc[q].op = "detect_communities" /\ proc[q].pc = "done"
        /\ proc[q].ret.kind = "value" /\ proc[q].ret.val.size = 1

\* C14: calculate_influence_score returns
\* 10 x (0.3 x degree + 0.4 x betweenness + 0.3 x closeness) clamped to
\* [0, 100]; in tenths, the sum 3 x degree + 4 x betweenness + 3 x closeness
\* when it lies within [0, 1000], and never less than 0 or more than 1000.
C14_InfluenceScoreClamped ==
    \A p \in Procs :
        (proc[p].op = "calculate_influence_score" /\ proc[p].pc = "done")
            => LET r == proc[p].ret.val
                   sum == 3 * r.of.degree + 4 * r.of.betweenness + 3 * r.of.closeness
               IN /\ r.score >= 0 /\ r.score <= 1000
                  /\ (sum >= 0 /\ sum <= 1000) => r.score = sum
                  /\ sum > 1000 => r.score = 1000

C14_Witness ==
    \E p \in Procs :
        /\ proc[p].op = "calculate_influence_score" /\ proc[p].pc = "done"
        /\ proc[p].ret.val.score = 1000
        /\ Weighted(proc[p].ret.val.of) > 1000
        /\ proc[p].ret.val.of.degree > 0

\* C15: find_shortest_path(S, T, max_hops) returns None whenever no chain of
\* at most max_hops relationships between users joins S and T, whatever
\* interactions have been recorded; a path it returns is no longer than
\* max_hops.  (A failed store read raises instead.)
C15_NoPathIsNone ==
    [][\A p \in Procs :
          (proc[p].op = "find_shortest_path" /\ proc[p].pc # "done"
             /\ proc'[p].pc = "done" /\ proc'[p].ret # Raise("StoreError"))
              => /\ ~Connected(proc[p].a, proc[p].b, proc[p].n, rels)
                      => proc'[p].ret = RetNone
                 /\ proc'[p].ret.kind = "value"
                      => proc'[p].ret.val.length <= proc[p].n]_vars

\* C16: get_user_interactions(U, type, limit) returns exactly min(limit, k)
\* interactions, k being the number of recorded interactions of the type that
\* U sent or received; each has the type and involves U, none comes twice,
\* and they are ordered most recent first.  (A failed store read raises
\* instead.)
C16_InteractionsListed ==
    [][\A p \in Procs :
          (At(p, "get_user_interactions", "read") /\ proc'[p].pc = "done"
             /\ proc'[p].ret # Raise("StoreError"))
              => LET u == proc[p].a
                     K == {i \in inter : (i.from = u \/ i.to = u)
                                           /\ (proc[p].t = "" \/ i.type = proc[p].t)}
                 IN /\ proc'[p].ret.kind = "value"
                    /\ LET L == proc'[p].ret.val.list
                       IN /\ Len(L) = Min(proc[p].n, Cardinality(K))
                          /\ \A k \in 1..Len(L) : L[k] \in K
                          /\ \A j, k \in 1..Len(L) : j < k => L[j] # L[k]
                          /\ \A j, k \in 1..Len(L) :
                                j < k => L[j].timestamp >= L[k].timestamp]_vars

\* C11: the list recommend_connections(U, limit) returns never contains U
\* nor a user with a direct relationship with U in either direction.
C11_RecommendationExclusion ==
    \A p \in Procs :
        (proc[p].op = "recommend_connections" /\ proc[p].pc = "done"
           /\ proc[p].ret.kind = "value")
            => \A k \in 1..Len(proc[p].ret.val.list) :
                  LET v == proc[p].ret.val.list[k].user
                  IN /\ v # proc[p].a
                     /\ \A r \in rels : {r.from, r.to} # {proc[p].a, v}

C11_Witness ==
    \E p \in Procs :
        /\ proc[p].op = "recommend_connections" /\ proc[p].pc = "done"
        /\ proc[p].ret.kind = "value" /\ Len(proc[p].ret.val.list) > 0
        /\ \E v \in Adjacent(proc[p].a, rels) : PathCount(proc[p].a, v, rels) > 0
        /\ PathCount(proc[p].a, proc[p].a, rels) > 0

\* C12: recommend_connections(U, limit) returns at most limit
\* recommendations, ordered by the number of mutual connections, largest
\* first.
C12_RecommendationsRanked ==
    \A p \in Procs :
        (proc[p].op = "recommend_connections" /\ proc[p].pc = "done"
           /\ proc[p].ret.kind = "value")
            => LET L == proc[p].ret.val.list
               IN /\ Len(L) <= proc[p].n
                  /\ \A j, k \in 1..Len(L) :
                        j < k => Cardinality(L[j].mutual_connections)
                                    >= Cardinality(L[k].mutual_connections)

\* C21: the node_degree of the user get_user(U) returns equals the number of
\* relationships incident to U in the store at the time of the call.
C21_DegreeCountsRelationships ==
    [][\A p \in Procs :
          (Finishes(p, "get_user") /\ proc'[p].ret.kind = "value")
              => proc'[p].ret.val.deg = Cardinality(Incident(proc[p].a, rels))]_vars

\* C28: every recommendation's score is the number of distinct users directly
\* connected to both U and the candidate, divided by 10 (here: the count the
\* score is made of is that number), and its mutual_connections are at most 5
\* users, each directly connected to both.
C28_ScoreIsMutualCount ==
    \A p \in Procs :
        (proc[p].op = "recommend_connections" /\ proc[p].pc = "done"
           /\ proc[p].ret.kind = "value")
            => \A k \in 1..Len(proc[p].ret.val.list) :
                  LET row == proc[p].ret.val.list[k]
                      both == {m \in DOMAIN nodes :
                                 /\ \E r \in rels : {r.from, r.to} = {proc[p].a, m}
                                 /\ \E r \in rels : {r.from, r.to} = {row.user, m}}
                  IN /\ row.mutual_count = Cardinality(both)
                     /\ Cardinality(row.mutual_connections) <= 5
                     /\ row.mutual_connections \subseteq both

\* C29: a user at distance exactly 3 from U, with no common neighbour and no
\* direct relationship with U, is returned by recommend_connections(U, limit)
\* whenever fewer than limit candidates rank at or above it.
C29_ThreeHopCandidateReturned ==
    \A p \in Procs :
        (proc[p].op = "recommend_connections" /\ proc[p].pc = "done"
           /\ proc[p].ret.kind = "value")
            => LET u == proc[p].a
                   L == proc[p].ret.val.list
               IN \A v \in Candidates(u, rels) :
                     (/\ Mutual(u, v, rels) = {}
                      /\ Cardinality({w \in Candidates(u, rels) \ {v} :
                                        PathCount(u, w, rels) >= PathCount(u, v, rels)})
                            < proc[p].n)
                         => \E k \in 1..Len(L) : L[k].user = v

\* C30: when its store write succeeds, create_user returns the new User, and
\* a following get_user of a created user, from the cache or from the store,
\* returns the User with its metadata decoded back to a map.  (A failed
\* store read raises instead.)
C30_UserRoundTrip ==
    [][\A p \in Procs :
          /\ (At(p, "create_user", "inval") /\ proc'[p].pc = "done")
                => /\ proc'[p].ret.kind = "value"
                   /\ proc'[p].ret.val.ver = 0
          /\ (Finishes(p, "get_user") /\ nodes[proc[p].a] = CreatedNode
                /\ proc'[p].ret # Raise("StoreError"))
                => /\ proc'[p].ret.kind = "value"
                   /\ proc'[p].ret.val.ver = 0]_vars

\* C22: after delete_user(U) has returned, get_user_relationships(V) returns
\* no relationship with U as an endpoint, and the removal of U's edges has
\* invalidated the cached relationship lists of the users at their other end.
C22_CascadeInvalidatesLists ==
    [][\A p \in Procs :
          /\ (Finishes(p, "delete_user") /\ proc'[p].ret = RetNone)
                => \A v \in proc[p].cascade, t \in RelTypes \cup {"all"} :
                      cache'[RelListKey(v, t)] = NoEntry
          /\ (Finishes(p, "get_user_relationships") /\ proc'[p].ret.kind = "value")
                => \A r \in proc'[p].ret.val.list :
                      \A u \in {r.from, r.to} : u = proc[p].a \/ settled[u] = "no"]_vars

C24_EveryEntryHasTtl ==
    \A k \in Keys : cache[k] # NoEntry => cache[k].expire > 0

\* C27: a delete_pattern(p) that returns has deleted every key matching p
\* that existed for the whole duration of the call, and no step of it deletes
\* a key that does not match p.
C27_PatternDeleted ==
    [][\A p \in Procs :
          /\ (Finishes(p, "delete_pattern") /\ proc'[p].ret = RetNone)
                => \A k \in Glob(proc[p].t) : cache'[k] # NoEntry => k \in proc[p].fresh
          /\ (proc[p].op = "delete_pattern" /\ proc[p].pc \in {"call", "scan", "delete"}
                /\ proc'[p].pc # proc[p].pc)
                => \A k \in Keys \ Glob(proc[p].t) : cache'[k] = cache[k]]_vars

\* C27, with the cache store answering: a delete_pattern(p) that returns
\* from a step the cache store answered has walked the whole keyspace and
\* deleted every key matching p that existed for the whole duration of the
\* call; no step of it deletes a key that does not match p.
C27_PatternDeletedWhenCacheAnswers ==
    [][\A p \in Procs :
          /\ (Finishes(p, "delete_pattern") /\ proc'[p].ret = RetNone /\ cacheUp)
                => /\ proc[p].seen = LayerKeys
                   /\ \A k \in Glob(proc[p].t) : cache'[k] # NoEntry => k \in proc[p].fresh
          /\ (proc[p].op = "delete_pattern" /\ proc[p].pc \in {"call", "scan", "delete"}
                /\ proc'[p].pc # proc[p].pc)
                => \A k \in Keys \ Glob(proc[p].t) : cache'[k] = cache[k]]_vars

C27_Witness ==
    \E p \in Procs :
        /\ At(p, "delete_pattern", "delete")
        /\ proc[p].seen = LayerKeys
        /\ proc[p].members # {}
        /\ cacheUp
        /\ \E k \in Keys \ Glob(proc[p].t) : cache[k] # NoEntry
        /\ \E k \in Glob(proc[p].t) \ proc[p].members : cache[k] = NoEntry

\* C25: centrality_measures isolates faults per measure: whatever subset of
\* its three queries fails, the connection failure included, it raises
\* nothing and returns all three keys, 0 for each failed measure and the
\* query's value for each other.
C25_FaultsIsolatedPerMeasure ==
    [][\A p \in Procs :
          Finishes(p, "centrality_measures")
             => /\ proc'[p].ret.kind = "value"
                /\ DOMAIN proc'[p].ret.val = MeasureNames
                /\ \A m \in MeasureNames :
                      proc'[p].ret.val[m] = IF m \in proc[p].failed THEN 0
                                            ELSE proc[p].answered[m]]_vars

C25_Witness ==
    \E p \in Procs :
        /\ At(p, "centrality_measures", "return")
        /\ proc[p].failed = {"degree", "closeness"}
        /\ proc[p].results["betweenness"] > 0
        /\ nodes[proc[p].a] # NoUser
        /\ NodeDegree(proc[p].a, rels) > 0

\* C26: a readiness probe made when the store client has connected through
\* a store operation and the store is reachable reports ready.
C26_ReadyOnceConnected ==
    [][\A p \in Procs :
          (Finishes(p, "readiness_check") /\ async_driver /\ storeUp)
             => proc'[p].ret = RetVal([status |-> "ready"])]_vars

\* C31: every step of a read operation (get_user, get_user_relationships,
\* get_user_interactions, find_shortest_path, detect_communities,
\* calculate_influence_score, recommend_connections, get_statistics, the raw
\* execute_query) runs in a transaction of read access mode and leaves the
\* nodes and edges of the store unchanged; the nodes and edges change only
\* in a step of a create, update, delete or record operation or of a bulk
\* load.
C31_ReadsLeaveStoreUnchanged ==
    [][/\ \A p \in Procs :
            (proc[p].op \in ReadOps /\ proc[p].pc \notin {"idle", "done"}
               /\ proc'[p].pc # proc[p].pc)
               => /\ TransactionMode(proc[p].op) = "read"
                  /\ nodes' = nodes /\ rels' = rels /\ inter' = inter
       /\ (nodes' # nodes \/ rels' # rels \/ inter' # inter)
            => \/ proc' = proc
               \/ \E p \in Procs : /\ proc[p].op \in WriteOps
                                   /\ proc'[p].pc # proc[p].pc
                                   /\ TransactionMode(proc[p].op) = "write"]_vars

C31_Witness ==
    \E p \in Procs :
        /\ proc[p].op = "execute_query" /\ proc[p].pc = "done"
        /\ proc[p].ret = Raise("ClientError")
        /\ UserCount > 0 /\ rels # {} /\ inter # {}

\* C32: the statistics get_statistics reads are those of the store: the
\* numbers of nodes and of relationships, and their quotient for the average
\* degree, 0 when there is no node.
C32_StatisticsAreActual ==
    [][\A p \in Procs :
          (At(p, "get_statistics", "read") /\ proc'[p].pc = "node_types")
             => /\ proc'[p].data.total_nodes = TotalNodes
                /\ proc'[p].data.total_relationships = TotalRelationships
                /\ proc'[p].data.avg_degree = AvgDegree(TotalRelationships, TotalNodes)]_vars

\* C33: the density detect_communities reports lies within [0, 1].
C33_DensityWithinUnit ==
    \A p \in Procs :
        (proc[p].op = "detect_communities" /\ proc[p].pc = "done"
           /\ proc[p].ret.kind = "value")
            => /\ 0 <= proc[p].ret.val.num
               /\ proc[p].ret.val.num <= proc[p].ret.val.den

\* C34: a create_user, update_user, delete_user or create_relationship whose
\* store write fails raises to its caller without having issued a cache
\* delete, and no step of the call, from its start to the failure, changes
\* the store or a cache entry.
C34_FailedWriteChangesNothing ==
    [][\A p \in Procs :
          LET ops == {"create_user", "update_user", "delete_user", "create_relationship"}
              starts == proc[p].pc \in {"idle", "done"} /\ proc'[p].op \in ops
                           /\ proc'[p].pc = "write"
              retries == proc[p].op \in ops /\ proc[p].pc = "write"
                            /\ proc'[p].pc = "write" /\ proc'[p] # proc[p]
              fails == proc[p].op \in ops /\ proc[p].pc = "write"
                          /\ proc'[p].pc = "done" /\ ~proc[p].wr
          IN /\ fails => proc'[p].ret.kind = "raise" /\ ~proc[p].cd
             /\ (starts \/ retries \/ fails)
                  => nodes' = nodes /\ rels' = rels /\ inter' = inter /\ cache' = cache]_vars

C34_Witness ==
    \E p \in Procs :
        /\ proc[p].op \in {"update_user", "delete_user"} /\ proc[p].pc = "done"
        /\ proc[p].ret = Raise("StoreError")
        /\ \E i \in Ids : nodes[i] # NoUser /\ cache[UserKey(i)] # NoEntry
                            /\ cache[UserKey(i)].ver = nodes[i].ver

\* C35: whatever the interleaving of the first operations on an unconnected
\* RedisCache, at most one client is ever made, redis_client is never
\* assigned a second one, and every command goes to that one client.
C35_OneClient ==
    /\ clients.made <= 1
    /\ clients.id \in {0, 1}
    /\ \A p \in Procs : proc[p].via \in {0, 1}

C35_Witness ==
    \E p, q \in Procs :
        /\ proc[p].op \in LazyOps /\ proc[p].pc = "ping"
        /\ proc[q].op \in LazyOps /\ proc[q].pc = "done" /\ proc[q].via = 1
        /\ started = 2
        /\ clients.made = 1

====
